---- MODULE Spec2Model ----
(***************************************************************************)
(* A model of slcgen, the generator of "symbols for legacy computing"      *)
(* glyph outlines: parameter resolution (SLCParameters), the glyph         *)
(* builders of GlyphProxy, and the Sfd / SfdChar font accumulator and      *)
(* serializer of the shapely variant (src/old/slcgen.py).                  *)
(*                                                                         *)
(* Numbers.  Python's numbers are modelled as exact rationals <<n, d>>     *)
(* with d > 0 in lowest terms; a missing keyword argument (None) is the    *)
(* empty tuple.  round() is Python 3's round-half-to-even and '%d' is      *)
(* truncation toward zero.                                                 *)
(***************************************************************************)
EXTENDS Integers, Sequences, FiniteSets, TLC

VARIABLES
    kwargs,      \* the keyword arguments handed to slcgen(**kwargs)
    pc,          \* position of the run: "main", "slcgen", "glyphs", "done",
                 \* "aborted", "exit"
    err,         \* the exception that ended the run, or "none"
    p,           \* the SLCParameters object (None before construction)
    properties,  \* Sfd.properties: the header lines
    encsize,     \* Sfd.encsize
    chars,       \* Sfd.chars: sequence of SfdChar [name, properties]
    charindex,   \* Sfd.charindex: name -> index into chars (0-based)
    out,         \* the lines printed to the output file
    mkcalls,     \* history: the mkglyph calls made, in call order
    calls,       \* history: per glyph, the spline lists its builder calls appended
    last,        \* history: the most recent builder call and its target glyph
    argv,        \* sys.argv[1:], each argument a sequence of characters
    dest,        \* the path given with -o (None: standard output)
    file,        \* the file at that path: <<"absent">> or <<"file", lines>>
    usage,       \* whether help() has printed the usage message
    exitcode,    \* <<>> while the process runs, then <<status>>
    log,         \* history: every mkglyph and builder call, in call order
    font         \* the fontforge font: its glyphs [cp, width, contours], in
                 \* order of creation

vars == <<kwargs, pc, err, p, properties, encsize, chars, charindex, out,
          mkcalls, calls, last, argv, dest, file, usage, exitcode, log, font>>

----------------------------------------------------------------------------
(* Exact rational arithmetic.                                              *)

None == <<>>

Abs(i) == IF i < 0 THEN -i ELSE i

RECURSIVE GCD(_, _)
GCD(a, b) == IF b = 0 THEN a ELSE GCD(b, a % b)

Norm(n, d) ==
    LET s == IF d < 0 THEN -1 ELSE 1
        g == GCD(Abs(n), Abs(d))
    IN  <<(s * n) \div g, (s * d) \div g>>

R(i) == <<i, 1>>
Q(n, d) == Norm(n, d)

RAdd(a, b) == Norm(a[1] * b[2] + b[1] * a[2], a[2] * b[2])
RSub(a, b) == Norm(a[1] * b[2] - b[1] * a[2], a[2] * b[2])
RMul(a, b) == Norm(a[1] * b[1], a[2] * b[2])
RDiv(a, b) == Norm(a[1] * b[2], a[2] * b[1])
RLt(a, b) == a[1] * b[2] < b[1] * a[2]
RLe(a, b) == a[1] * b[2] <= b[1] * a[2]
RMin(a, b) == IF RLe(a, b) THEN a ELSE b
RMax(a, b) == IF RLe(a, b) THEN b ELSE a
IsZero(a) == a[1] = 0

\* Python 3 round(x): to the nearest integer, ties to the even one.
round(a) ==
    LET f == a[1] \div a[2]
        r == a[1] - f * a[2]
    IN  IF 2 * r < a[2] THEN f
        ELSE IF 2 * r > a[2] THEN f + 1
        ELSE IF f % 2 = 0 THEN f ELSE f + 1

\* '%d' % x: the integer part, truncated toward zero.
FormatD(a) == IF a[1] >= 0 THEN a[1] \div a[2] ELSE -((-a[1]) \div a[2])

----------------------------------------------------------------------------
(* SLCParameters.__init__                                                  *)

Given(v) == v # None

\* A mutant of ascent: the override tested for truth, not for None.
ascentTruthy(k) ==
    IF Given(k.ascent) /\ ~IsZero(k.ascent) THEN k.ascent
    ELSE IF Given(k.descent) THEN RMul(k.descent, R(4))
    ELSE R(800)

ascent(k) ==
    IF Given(k.ascent) THEN k.ascent
    ELSE IF Given(k.descent) THEN RMul(k.descent, R(4))
    ELSE R(800)

descent(k) ==
    IF Given(k.descent) THEN k.descent
    ELSE IF Given(k.ascent) THEN RDiv(k.ascent, R(4))
    ELSE R(200)

height(k) == RAdd(ascent(k), descent(k))

width(k) == IF Given(k.width) THEN k.width ELSE height(k)

pixelHeight(k) ==
    IF Given(k.pixelHeight) THEN k.pixelHeight
    ELSE IF Given(k.pixelWidth) THEN k.pixelWidth
    ELSE R(20)

pixelWidth(k) ==
    IF Given(k.pixelWidth) THEN k.pixelWidth
    ELSE IF Given(k.pixelHeight) THEN k.pixelHeight
    ELSE R(20)

boxLightWeight(k) ==
    IF ~Given(k.boxLightWeight) /\ ~Given(k.boxHeavyWeight)
    THEN RDiv(height(k), R(9))
    ELSE IF Given(k.boxLightWeight) THEN k.boxLightWeight
         ELSE RDiv(k.boxHeavyWeight, R(2))

boxHeavyWeight(k) ==
    IF ~Given(k.boxLightWeight) /\ ~Given(k.boxHeavyWeight)
    THEN RMul(boxLightWeight(k), R(2))
    ELSE IF Given(k.boxHeavyWeight) THEN k.boxHeavyWeight
         ELSE RMul(k.boxLightWeight, R(2))

boxDoubleGap(k) ==
    IF Given(k.boxDoubleGap) THEN k.boxDoubleGap ELSE boxLightWeight(k)

boxArcRadius(k) ==
    IF Given(k.boxArcRadius) THEN k.boxArcRadius
    ELSE RDiv(RMin(height(k), width(k)), R(2))

boxTickLength(k) ==
    IF Given(k.boxTickLength) THEN k.boxTickLength
    ELSE RMin(RDiv(RMax(height(k), width(k)), R(3)),
              RDiv(RMin(height(k), width(k)), R(2)))

\* The boxLineTruncate override, when given, is <<TRUE>> or <<FALSE>>.
boxLineTruncate(k) ==
    IF Given(k.boxLineTruncate) THEN k.boxLineTruncate[1] ELSE TRUE

\* A mutant of separationTop: the perpendicular pair is used whenever its
\* right edge is given.
separationTopAnyRight(k) ==
    IF Given(k.separationTop) THEN k.separationTop
    ELSE IF Given(k.separationBottom) THEN k.separationBottom
    ELSE IF Given(k.separationRight) THEN k.separationRight
    ELSE IF Given(k.separationLeft) /\ ~Given(k.separationRight)
         THEN k.separationLeft
    ELSE RDiv(height(k), R(18))

separationTop(k) ==
    IF Given(k.separationTop) THEN k.separationTop
    ELSE IF Given(k.separationBottom) THEN k.separationBottom
    ELSE IF Given(k.separationRight) /\ ~Given(k.separationLeft)
         THEN k.separationRight
    ELSE IF Given(k.separationLeft) /\ ~Given(k.separationRight)
         THEN k.separationLeft
    ELSE RDiv(height(k), R(18))

separationRight(k) ==
    IF Given(k.separationRight) THEN k.separationRight
    ELSE IF Given(k.separationLeft) THEN k.separationLeft
    ELSE IF Given(k.separationTop) /\ ~Given(k.separationBottom)
         THEN k.separationTop
    ELSE IF Given(k.separationBottom) /\ ~Given(k.separationTop)
         THEN k.separationBottom
    ELSE RDiv(height(k), R(18))

separationBottom(k) ==
    IF Given(k.separationBottom) THEN k.separationBottom
    ELSE IF Given(k.separationTop) THEN k.separationTop
    ELSE IF Given(k.separationRight) /\ ~Given(k.separationLeft)
         THEN k.separationRight
    ELSE IF Given(k.separationLeft) /\ ~Given(k.separationRight)
         THEN k.separationLeft
    ELSE RDiv(height(k), R(18))

separationLeft(k) ==
    IF Given(k.separationLeft) THEN k.separationLeft
    ELSE IF Given(k.separationRight) THEN k.separationRight
    ELSE IF Given(k.separationTop) /\ ~Given(k.separationBottom)
         THEN k.separationTop
    ELSE IF Given(k.separationBottom) /\ ~Given(k.separationTop)
         THEN k.separationBottom
    ELSE RDiv(height(k), R(18))

\* The object SLCParameters(**k) constructs.
SLCParameters(k) ==
    [ascent |-> ascent(k), descent |-> descent(k), height |-> height(k),
     width |-> width(k),
     pixelHeight |-> pixelHeight(k), pixelWidth |-> pixelWidth(k),
     boxLightWeight |-> boxLightWeight(k),
     boxHeavyWeight |-> boxHeavyWeight(k),
     boxDoubleGap |-> boxDoubleGap(k), boxArcRadius |-> boxArcRadius(k),
     boxTickLength |-> boxTickLength(k),
     boxLineTruncate |-> boxLineTruncate(k),
     separationTop |-> separationTop(k),
     separationRight |-> separationRight(k),
     separationBottom |-> separationBottom(k),
     separationLeft |-> separationLeft(k)]

\* The keyword arguments slcgen is run with; the diagonal-fill arguments
\* (whose defaults are trigonometric) are inputs of diagfill below.
NoKwargs ==
    [ascent |-> None, descent |-> None, width |-> None,
     pixelHeight |-> None, pixelWidth |-> None,
     boxLightWeight |-> None, boxHeavyWeight |-> None, boxDoubleGap |-> None,
     boxArcRadius |-> None, boxTickLength |-> None, boxLineTruncate |-> None,
     separationTop |-> None, separationRight |-> None,
     separationBottom |-> None, separationLeft |-> None]

----------------------------------------------------------------------------
(* Sfd and SfdChar (src/old/slcgen.py).  A line of text is a tuple         *)
(* <<keyword, a, b, c>>: the keyword with the values '%d' formatted into   *)
(* it; a spline line '%d %d m 1' is <<"m", x, y, 1>>.                      *)

Line(t) == <<t, 0, 0, 0>>
SplineSet == Line("SplineSet")
EndSplineSet == Line("EndSplineSet")

\* Index of the first 'EndSplineSet' line of props, 0 when there is none.
FirstEndSplineSet(props) ==
    IF \E i \in 1..Len(props) : props[i] = EndSplineSet
    THEN CHOOSE i \in 1..Len(props) :
            /\ props[i] = EndSplineSet
            /\ \A j \in 1..(i - 1) : props[j] # EndSplineSet
    ELSE 0

\* A mutant of appendSplines: every call opens a section of its own.
appendSplinesOwnSection(props, splines) ==
    props \o <<SplineSet>> \o splines \o <<EndSplineSet>>

\* SfdChar.appendSplines: the new properties list.
appendSplines(props, splines) ==
    LET e == FirstEndSplineSet(props)
    IN  IF e > 0
        THEN SubSeq(props, 1, e - 1) \o splines \o SubSeq(props, e, Len(props))
        ELSE props \o <<SplineSet>> \o splines \o <<EndSplineSet>>

\* The appendSplines calls of one builder call, applied in order.
RECURSIVE appendEach(_, _)
appendEach(props, lists) ==
    IF lists = <<>> THEN props
    ELSE appendEach(appendSplines(props, Head(lists)), Tail(lists))

\* FontProxy.mkfont: the header properties.
mkfont(params) ==
    << Line("FontName: SLC"), Line("FullName: SLC"), Line("FamilyName: SLC"),
       Line("Weight: Regular"), Line("Copyright: Created by slcgen"),
       Line("UComments: \"Created by slcgen\""), Line("Version: 001.000"),
       Line("ItalicAngle: 0"), Line("UnderlinePosition: -100"),
       Line("UnderlineWidth: 50"),
       <<"Ascent", FormatD(params.ascent), 0, 0>>,
       <<"Descent", FormatD(params.descent), 0, 0>>,
       Line("InvalidEm: 0"), Line("LayerCount: 2"),
       Line("Layer: 0 0 \"Back\" 1"), Line("Layer: 1 0 \"Fore\" 0"),
       Line("OS2Version: 0"), Line("OS2_WeightWidthSlopeOnly: 0"),
       Line("OS2_UseTypoMetrics: 1"), Line("OS2TypoAscent: 0"),
       Line("OS2TypoAOffset: 1"), Line("OS2TypoDescent: 0"),
       Line("OS2TypoDOffset: 1"), Line("OS2TypoLinegap: 0"),
       Line("OS2WinAscent: 0"), Line("OS2WinAOffset: 1"),
       Line("OS2WinDescent: 0"), Line("OS2WinDOffset: 1"),
       Line("HheadAscent: 0"), Line("HheadAOffset: 1"),
       Line("HheadDescent: 0"), Line("HheadDOffset: 1"),
       Line("OS2Vendor: 'slcg'"), Line("DEI: 91125"),
       Line("Encoding: UnicodeFull"), Line("UnicodeInterp: none"),
       Line("NameList: AGL For New Fonts"), Line("DisplaySize: -36"),
       Line("AntiAlias: 1"), Line("FitToEm: 0"), Line("WinInfo: 0 16 16") >>

EncSize == 1114112

\* The six declarations FontProxy.mkglyph appends to chars[ci].
GlyphDecls(params, cp, ci) ==
    << <<"Encoding", cp, cp, ci>>,
       <<"Width", FormatD(params.width), 0, 0>>,
       Line("VWidth: 0"), Line("Flags: HW"), Line("LayerCount: 2"),
       Line("Fore") >>

\* SfdChar.print

SfdCharPrint(ch) ==
    << <<"StartChar", ch.name, 0, 0>> >> \o ch.properties \o << Line("EndChar") >>

\* A mutant of printChars: the glyphs written last to first.
RECURSIVE printCharsReversed(_)
printCharsReversed(cs) ==
    IF cs = <<>> THEN <<>>
    ELSE printCharsReversed(Tail(cs)) \o << Line("") >> \o SfdCharPrint(Head(cs))

RECURSIVE printChars(_)
printChars(cs) ==
    IF cs = <<>> THEN <<>>
    ELSE << Line("") >> \o SfdCharPrint(Head(cs)) \o printChars(Tail(cs))

\* Sfd.print
SfdPrint(props, esize, cs) ==
    << Line("SplineFontDB: 3.0") >> \o props
        \o << <<"BeginChars", esize, Len(cs), 0>> >>
        \o printChars(cs)
        \o << Line("EndChars"), Line("EndSplineFont") >>

----------------------------------------------------------------------------
(* GlyphProxy: the primitive builders.  Each returns the sequence of       *)
(* spline lists it hands to appendSplines, one list per call.              *)

\* A mutant of rawrect: the line back to the first corner left out.
rawrectOpen(x1, y1, x2, y2) ==
    << << <<"m", round(x1), round(y1), 1>>,
          <<"l", round(x2), round(y1), 1>>,
          <<"l", round(x2), round(y2), 1>>,
          <<"l", round(x1), round(y2), 1>> >> >>

\* A mutant of tx: the coordinates cut to their integer part.
txTruncating(params, x, y) ==
    <<FormatD(RMul(params.width, x)),
      FormatD(RSub(params.ascent, RMul(params.height, y)))>>

\* SLCParameters.tx(x, y): the design-space point of a point of the unit
\* square.
tx(params, x, y) ==
    <<round(RMul(params.width, x)),
      round(RSub(params.ascent, RMul(params.height, y)))>>

\* A mutant of rawrect: the corners visited the other way round.
rawrectCounter(x1, y1, x2, y2) ==
    << << <<"m", round(x1), round(y1), 1>>,
          <<"l", round(x1), round(y2), 1>>,
          <<"l", round(x2), round(y2), 1>>,
          <<"l", round(x2), round(y1), 1>>,
          <<"l", round(x1), round(y1), 1>> >> >>

\* A mutant of rawrect: the second corner placed by the rounded size.
rawrectBySize(x1, y1, x2, y2) ==
    << << <<"m", round(x1), round(y1), 1>>,
          <<"l", round(x1) + round(RSub(x2, x1)), round(y1), 1>>,
          <<"l", round(x1) + round(RSub(x2, x1)),
                 round(y1) + round(RSub(y2, y1)), 1>>,
          <<"l", round(x1), round(y1) + round(RSub(y2, y1)), 1>>,
          <<"l", round(x1), round(y1), 1>> >> >>

rawrect(x1, y1, x2, y2) ==
    << << <<"m", round(x1), round(y1), 1>>,
          <<"l", round(x2), round(y1), 1>>,
          <<"l", round(x2), round(y2), 1>>,
          <<"l", round(x1), round(y2), 1>>,
          <<"l", round(x1), round(y1), 1>> >> >>

rect(params, x1, y1, x2, y2) ==
    rawrect(RMul(params.width, x1),
            RSub(params.ascent, RMul(params.height, y1)),
            RMul(params.width, x2),
            RSub(params.ascent, RMul(params.height, y2)))

\* points: a sequence of <<x, y>> pairs of rationals.
rawpoly(points) ==
    << << <<"m", round(points[Len(points)][1]), round(points[Len(points)][2]), 1>> >>
       \o [i \in 1..Len(points) |->
              <<"l", round(points[i][1]), round(points[i][2]), 1>>] >>

poly(params, points) ==
    rawpoly([i \in 1..Len(points) |->
                <<RMul(params.width, points[i][1]),
                  RSub(params.ascent, RMul(params.height, points[i][2]))>>])

\* The fontforge variant of the primitive builders: the calls made on the
\* glyph pen, one contour per builder call.
penrawrect(x1, y1, x2, y2) ==
    << <<"moveTo", round(x1), round(y1)>>,
       <<"lineTo", round(x2), round(y1)>>,
       <<"lineTo", round(x2), round(y2)>>,
       <<"lineTo", round(x1), round(y2)>>,
       <<"closePath", 0, 0>> >>

penrect(params, x1, y1, x2, y2) ==
    penrawrect(RMul(params.width, x1),
               RSub(params.ascent, RMul(params.height, y1)),
               RMul(params.width, x2),
               RSub(params.ascent, RMul(params.height, y2)))

penrawpoly(points) ==
    << <<"moveTo", round(points[1][1]), round(points[1][2])>> >>
      \o [i \in 1..(Len(points) - 1) |->
             <<"lineTo", round(points[i + 1][1]), round(points[i + 1][2])>>]
      \o << <<"closePath", 0, 0>> >>

penpoly(params, points) ==
    penrawpoly([i \in 1..Len(points) |->
                   <<RMul(params.width, points[i][1]),
                     RSub(params.ascent, RMul(params.height, points[i][2]))>>])

----------------------------------------------------------------------------
(* Python's bitwise operators on non-negative integers.                    *)

RECURSIVE BitAnd(_, _)
BitAnd(a, b) ==
    IF a = 0 \/ b = 0 THEN 0
    ELSE (IF a % 2 = 1 /\ b % 2 = 1 THEN 1 ELSE 0)
         + 2 * BitAnd(a \div 2, b \div 2)

RECURSIVE BitXor(_, _)
BitXor(a, b) ==
    IF a = 0 THEN b
    ELSE IF b = 0 THEN a
    ELSE (IF a % 2 # b % 2 THEN 1 ELSE 0) + 2 * BitXor(a \div 2, b \div 2)

RECURSIVE ShiftRight(_, _)
ShiftRight(n, k) == IF k = 0 THEN n ELSE ShiftRight(n \div 2, k - 1)

\* The cells <<x, y>> in the order "for y in range(rows): for x in range(cols)".
LoopCells(rows, cols) ==
    [i \in 1..(rows * cols) |-> <<(i - 1) % cols, (i - 1) \div cols>>]

\* The rect call of grid cell <<x, y>> whose row is drawn at row index ry.
CellRect(params, rows, cols, x, ry) ==
    rect(params, Q(x, cols), Q(ry, rows), Q(x + 1, cols), Q(ry + 1, rows))[1]

\* A mutant of ShadeTest: the parity of rows + cols left out.
ShadeTestNoGridParity(rows, cols, inverse, c) ==
    BitXor(BitAnd(c[1] + c[2], 1), IF inverse THEN 0 ELSE 1) # 0

\* A mutant of ShadeTest: the inverse flag is not read.
ShadeTestIgnoringInverse(rows, cols, inverse, c) ==
    BitXor(BitXor(BitAnd(c[1] + c[2], 1), BitAnd(rows + cols, 1)), 1) # 0

\* A mutant of ShadeTest: the inverse flag read the wrong way round.
ShadeTestFlipped(rows, cols, inverse, c) ==
    BitXor(BitXor(BitAnd(c[1] + c[2], 1), BitAnd(rows + cols, 1)),
           IF inverse THEN 1 ELSE 0) # 0

\* The condition of shade and shadepart, for cell c = <<x, y>>.
ShadeTest(rows, cols, inverse, c) ==
    BitXor(BitXor(BitAnd(c[1] + c[2], 1), BitAnd(rows + cols, 1)),
           IF inverse THEN 0 ELSE 1) # 0

\* GlyphProxy.shade
shade(params, rows, cols, inverse) ==
    LET Test(c) == ShadeTest(rows, cols, inverse, c)
        sel == SelectSeq(LoopCells(rows, cols), Test)
    IN  [i \in 1..Len(sel) |-> CellRect(params, rows, cols, sel[i][1], sel[i][2])]

\* The cells <<x, y>>, y in range(rows // 2), that ltshade and dkshade
\* select; the box of such a cell lies in row 2*y.
LightTest(rows, cols, c) == BitAnd(c[1] + c[2], 1) = BitAnd(rows + cols, 1)

LightCells(rows, cols) ==
    LET Test(c) == LightTest(rows, cols, c)
    IN  SelectSeq(LoopCells(rows \div 2, cols), Test)

\* A mutant of ltshade: the boxes drawn in the odd rows.
ltshadeOddRows(params, rows, cols) ==
    LET sel == LightCells(rows, cols)
    IN  [i \in 1..Len(sel) |->
            CellRect(params, rows, cols, sel[i][1], 2 * sel[i][2] + 1)]

\* GlyphProxy.ltshade
ltshade(params, rows, cols) ==
    LET sel == LightCells(rows, cols)
    IN  [i \in 1..Len(sel) |->
            CellRect(params, rows, cols, sel[i][1], 2 * sel[i][2])]

\* A mutant of BitTest: the bits taken column by column.
BitTestColumnMajor(n, cols, c) ==
    BitAnd(ShiftRight(n, c[1] * cols + c[2]), 1) # 0

\* The cells whose bit of n is set, n shifted right once per cell visited.
BitTest(n, cols, c) == BitAnd(ShiftRight(n, c[2] * cols + c[1]), 1) # 0

BitCells(rows, cols, n) ==
    LET Test(c) == BitTest(n, cols, c)
    IN  SelectSeq(LoopCells(rows, cols), Test)

\* A mutant of sepmap: the cells not inset.
sepmapNoInset(params, rows, cols, n) ==
    LET sel == BitCells(rows, cols, n)
    IN  [i \in 1..Len(sel) |-> CellRect(params, rows, cols, sel[i][1], sel[i][2])]

\* GlyphProxy.sepmap
sepmap(params, rows, cols, n) ==
    LET sel == BitCells(rows, cols, n)
    IN  [i \in 1..Len(sel) |->
            rawrect(
                RAdd(RDiv(RMul(params.width, R(sel[i][1])), R(cols)),
                     params.separationLeft),
                RSub(RSub(params.ascent,
                          RDiv(RMul(params.height, R(sel[i][2])), R(rows))),
                     params.separationTop),
                RSub(RDiv(RMul(params.width, R(sel[i][1] + 1)), R(cols)),
                     params.separationRight),
                RAdd(RSub(params.ascent,
                          RDiv(RMul(params.height, R(sel[i][2] + 1)), R(rows))),
                     params.separationBottom))[1]]

----------------------------------------------------------------------------
(* shapely.  Every shape the grid builders hand to shapely is a union of   *)
(* unit boxes box(x, y, x+1, y+1) of an integer grid, so a shape is the    *)
(* set of its grid cells <<x, y>>: union and difference are those of the   *)
(* cell sets.  normalize puts the polygons of a shape, and the holes of a  *)
(* polygon, in descending order of their first (least) coordinate, starts  *)
(* every ring at its least coordinate, and winds shells clockwise and      *)
(* holes counter-clockwise; simplify drops the collinear vertices.         *)

box(x, y) == {<<x, y>>}

RECURSIVE union_all(_)
union_all(boxes) ==
    IF boxes = <<>> THEN {} ELSE Head(boxes) \cup union_all(Tail(boxes))

difference(a, b) == a \ b

\* box(0, 0, cols, rows)
GridBox(rows, cols) == (0..(cols - 1)) \X (0..(rows - 1))

\* Coordinate order: x first, then y.
LexLess(a, b) == a[1] < b[1] \/ (a[1] = b[1] /\ a[2] < b[2])
LexMin(S) == CHOOSE a \in S : \A b \in S : a = b \/ LexLess(a, b)

Adjacent(a, b) ==
    \/ a[1] = b[1] /\ Abs(a[2] - b[2]) = 1
    \/ a[2] = b[2] /\ Abs(a[1] - b[1]) = 1

\* The cells of S joined to the cells of C along edges.
RECURSIVE Grow(_, _)
Grow(S, C) ==
    LET more == {a \in S \ C : \E b \in C : Adjacent(a, b)}
    IN  IF more = {} THEN C ELSE Grow(S, C \cup more)

\* get_parts of the normalized shape: its polygons, the one with the
\* greatest first coordinate first.
RECURSIVE get_parts(_)
get_parts(S) ==
    IF S = {} THEN <<>>
    ELSE LET part == Grow(S, {LexMin(S)})
         IN  get_parts(S \ part) \o <<part>>

\* The boundary of polygon P as directed grid edges <<from, to>>, the
\* polygon on the left of each edge.
BoundaryEdges(P) ==
    UNION {
        (IF <<c[1], c[2] - 1>> \notin P
           THEN {<< <<c[1], c[2]>>, <<c[1] + 1, c[2]>> >>} ELSE {})
        \cup
        (IF <<c[1] + 1, c[2]>> \notin P
           THEN {<< <<c[1] + 1, c[2]>>, <<c[1] + 1, c[2] + 1>> >>} ELSE {})
        \cup
        (IF <<c[1], c[2] + 1>> \notin P
           THEN {<< <<c[1] + 1, c[2] + 1>>, <<c[1], c[2] + 1>> >>} ELSE {})
        \cup
        (IF <<c[1] - 1, c[2]>> \notin P
           THEN {<< <<c[1], c[2] + 1>>, <<c[1], c[2]>> >>} ELSE {})
        : c \in P }

Dir(e) == <<e[2][1] - e[1][1], e[2][2] - e[1][2]>>

\* The edge that follows e on its ring: where rings meet at a vertex each
\* keeps to its own side, which is the turn to the right.
NextEdge(E, e) ==
    LET b == e[2]
        d == Dir(e)
        right == <<b, <<b[1] + d[2], b[2] - d[1]>> >>
        ahead == <<b, <<b[1] + d[1], b[2] + d[2]>> >>
        left == <<b, <<b[1] - d[2], b[2] + d[1]>> >>
    IN  IF right \in E THEN right ELSE IF ahead \in E THEN ahead ELSE left

RECURSIVE Trace(_, _, _)
Trace(E, e0, acc) ==
    LET n == NextEdge(E, acc[Len(acc)])
    IN  IF n = e0 THEN acc ELSE Trace(E, e0, Append(acc, n))

SeqRange(s) == {s[i] : i \in 1..Len(s)}

\* The rings of the boundary edges R still to be traced, as edge sequences
\* in ascending order of first coordinate, each from its least vertex.
RECURSIVE RingsOf(_, _)
RingsOf(E, rest) ==
    IF rest = {} THEN <<>>
    ELSE LET v == LexMin({e[1] : e \in rest})
             e0 == CHOOSE e \in rest : e[1] = v
             ring == Trace(E, e0, <<e0>>)
         IN  <<ring>> \o RingsOf(E, rest \ SeqRange(ring))

Reverse(s) == [i \in 1..Len(s) |-> s[Len(s) + 1 - i]]

\* get_rings of a normalized polygon: the shell, then the holes.
get_rings(P) ==
    LET rs == RingsOf(BoundaryEdges(P), BoundaryEdges(P))
    IN  <<Head(rs)>> \o Reverse(Tail(rs))

\* The vertices of a ring after simplify, first to last: the vertices at
\* which the ring turns.
Corners(ring) ==
    LET Prev(i) == IF i = 1 THEN Len(ring) ELSE i - 1
        idx == SelectSeq([i \in 1..Len(ring) |-> i],
                         LAMBDA i : Dir(ring[Prev(i)]) # Dir(ring[i]))
    IN  [k \in 1..Len(idx) |-> ring[idx[k]][1]]

\* reversed(get_coordinates(ring)): a normalized ring read backwards runs
\* with the polygon on its left, from its first vertex back to it.
ReversedCoordinates(ring) == Append(Corners(ring), ring[1][1])

\* GlyphProxy._fromshapely
fromshapely(params, shape, xdenom, ydenom) ==
    LET parts == get_parts(shape)
        rings == [i \in 1..Len(parts) |-> get_rings(parts[i])]
        RECURSIVE Flat(_)
        Flat(i) == IF i > Len(rings) THEN <<>> ELSE rings[i] \o Flat(i + 1)
        all == Flat(1)
    IN  [k \in 1..Len(all) |->
            LET pts == ReversedCoordinates(all[k])
            IN  poly(params, [j \in 1..Len(pts) |->
                                 <<Q(pts[j][1], xdenom), Q(pts[j][2], ydenom)>>])[1]]

\* A mutant of dkshade: the boxes taken from the odd rows.
dkshadeOddRows(params, rows, cols) ==
    LET sel == LightCells(rows, cols)
        boxes == [i \in 1..Len(sel) |-> box(sel[i][1], 2 * sel[i][2] + 1)]
        shape == difference(GridBox(rows, cols), union_all(boxes))
    IN  fromshapely(params, shape, cols, rows)

\* GlyphProxy.dkshade
dkshade(params, rows, cols) ==
    LET sel == LightCells(rows, cols)
        boxes == [i \in 1..Len(sel) |-> box(sel[i][1], 2 * sel[i][2])]
        shape == difference(GridBox(rows, cols), union_all(boxes))
    IN  fromshapely(params, shape, cols, rows)

\* GlyphProxy.bitmap
bitmap(params, rows, cols, n) ==
    LET sel == BitCells(rows, cols, n)
        boxes == [i \in 1..Len(sel) |-> box(sel[i][1], sel[i][2])]
    IN  fromshapely(params, union_all(boxes), cols, rows)

----------------------------------------------------------------------------
(* Bounds of the model.                                                    *)

MaxGlyphCalls == 2      \* mkglyph calls in one run
MaxBuilderCalls == 2    \* builder calls in one run
MaxRows == 4            \* rows of a grid pattern
MaxCols == 4            \* columns of a grid pattern
MaxBitRows == 4         \* rows of a bitmap or separated mosaic
MaxBitCols == 2         \* columns of a bitmap or separated mosaic
MaxBits == 8            \* bits of the bitmask n of bitmap and sepmap

Names == {"a", "b"}
Codepoints == {65, 32}

\* Overrides a run may be started with.
RunKwargs ==
    { NoKwargs,
      [NoKwargs EXCEPT !.descent = R(200)],
      [NoKwargs EXCEPT !.ascent = R(10)],
      [NoKwargs EXCEPT !.width = R(0)],
      [NoKwargs EXCEPT !.ascent = R(0), !.descent = R(0), !.width = R(5)],
      [NoKwargs EXCEPT !.pixelWidth = R(0)],
      [NoKwargs EXCEPT !.pixelHeight = R(0), !.pixelWidth = R(4)] }

Opt(S) == {None} \cup {R(i) : i \in S}

ParamKwargs ==
    { [NoKwargs EXCEPT !.ascent = a, !.descent = d, !.width = w,
                       !.pixelHeight = ph, !.pixelWidth = pw,
                       !.separationTop = st, !.separationRight = sr,
                       !.separationBottom = sb, !.separationLeft = sl] :
        a \in Opt({0, 10, 800}), d \in Opt({0, 3, 200}), w \in Opt({0, 600}),
        ph \in Opt({0, 4}), pw \in Opt({0, 6}),
        st \in Opt({0, 11}), sr \in Opt({12}), sb \in Opt({13}),
        sl \in Opt({0, 14}) }

Separated(k, s) ==
    [k EXCEPT !.separationTop = s, !.separationRight = s,
              !.separationBottom = s, !.separationLeft = s]

SmallEm == [NoKwargs EXCEPT !.ascent = R(4), !.descent = R(1), !.width = R(10)]

PatternKwargs ==
    { NoKwargs,
      [NoKwargs EXCEPT !.ascent = R(7), !.descent = R(2), !.width = R(5)],
      SmallEm }

SepmapKwargs ==
    { NoKwargs,
      SmallEm,
      Separated(NoKwargs, R(0)),
      Separated(SmallEm, R(1)),
      Separated(NoKwargs, R(300)),
      Separated(NoKwargs, R(600)) }

----------------------------------------------------------------------------
(* The run.                                                                *)

NoCall ==
    [op |-> "none", g |-> 0, rows |-> 0, cols |-> 0, inverse |-> FALSE,
     n |-> 0, args |-> <<>>, added |-> <<>>]

\* The state of the destination file.
Absent == <<"absent">>
Written(lines) == <<"file", lines>>

\* A run entered at slcgen(**kwargs), with output to standard output.
InitWith(K) ==
    /\ kwargs \in K
    /\ pc = "slcgen"
    /\ err = "none"
    /\ p = None
    /\ properties = <<>>
    /\ encsize = 0
    /\ chars = <<>>
    /\ charindex = <<>>
    /\ out = <<>>
    /\ mkcalls = <<>>
    /\ calls = <<>>
    /\ last = NoCall
    /\ argv = <<>>
    /\ dest = None
    /\ file = Absent
    /\ usage = FALSE
    /\ exitcode = <<>>
    /\ log = <<>>
    /\ font = <<>>

\* The divisions slcgen makes before it creates the font: by width * 2.0,
\* height * 2.0, sin(atan2(height, width)) * width * 2,
\* cos(atan2(height, width)) * height * 2, height and width.  One of the
\* divisors is zero exactly when width or height is.
DivisionByZero(q) == IsZero(q.width) \/ IsZero(q.height)

\* slcgen, up to and including f.mkfont().
slcgen ==
    /\ pc = "slcgen"
    /\ p' = SLCParameters(kwargs)
    /\ IF DivisionByZero(p')
       THEN /\ err' = "ZeroDivisionError"
            /\ pc' = "aborted"
            /\ exitcode' = <<1>>
            /\ UNCHANGED <<properties, encsize>>
       ELSE /\ err' = err
            /\ pc' = "glyphs"
            /\ properties' = mkfont(p')
            /\ encsize' = EncSize
            /\ UNCHANGED exitcode
    /\ UNCHANGED <<kwargs, chars, charindex, out, mkcalls, calls, last,
                   argv, dest, file, usage, log, font>>

\* A mutant of charIndex: a known name gets a new SfdChar all the same.
charIndexAlwaysNew(cs, cidx, name) ==
    [i |-> Len(cs),
     chars |-> Append(cs, [name |-> name, properties |-> <<>>]),
     charindex |-> [m \in DOMAIN cidx \cup {name} |-> 
                       IF m = name THEN Len(cs) ELSE cidx[m]],
     created |-> TRUE]

\* A mutant of charIndex: a known name gets the index of the first glyph.
charIndexFirst(cs, cidx, name) ==
    IF name \in DOMAIN cidx
    THEN [i |-> 0, chars |-> cs, charindex |-> cidx, created |-> FALSE]
    ELSE [i |-> Len(cs),
          chars |-> Append(cs, [name |-> name, properties |-> <<>>]),
          charindex |-> [m \in DOMAIN cidx \cup {name} |->
                            IF m = name THEN Len(cs) ELSE cidx[m]],
          created |-> TRUE]

\* Sfd.charIndex(name, create=True): the index, and chars and charindex
\* after the call.
charIndex(cs, cidx, name) ==
    IF name \in DOMAIN cidx
    THEN [i |-> cidx[name], chars |-> cs, charindex |-> cidx, created |-> FALSE]
    ELSE [i |-> Len(cs),
          chars |-> Append(cs, [name |-> name, properties |-> <<>>]),
          charindex |-> [m \in DOMAIN cidx \cup {name} |->
                            IF m = name THEN Len(cs) ELSE cidx[m]],
          created |-> TRUE]

\* FontProxy.mkglyph
mkglyph(name, cp) ==
    /\ pc = "glyphs"
    /\ LET r == charIndex(chars, charindex, name)
       IN  /\ chars' = [r.chars EXCEPT ![r.i + 1].properties =
                                            @ \o GlyphDecls(p, cp, r.i)]
           /\ charindex' = r.charindex
           /\ calls' = IF r.created THEN Append(calls, <<>>) ELSE calls
    /\ mkcalls' = Append(mkcalls, <<name, cp>>)
    /\ log' = Append(log, [NoCall EXCEPT !.op = "mkglyph", !.args = <<name, cp>>])
    /\ UNCHANGED <<kwargs, pc, err, p, properties, encsize, out, last,
                   argv, dest, file, usage, exitcode, font>>

\* A mutant of Build: the lines go to the glyph made last, as if the font
\* kept one current glyph for all its GlyphProxy objects.
BuildOnCurrent(g, call, lists) ==
    /\ pc = "glyphs"
    /\ g \in 1..Len(chars)
    /\ chars' = [chars EXCEPT ![Len(chars)].properties = appendEach(@, lists)]
    /\ calls' = [calls EXCEPT ![g] = Append(@, lists)]
    /\ last' = [call EXCEPT !.g = g, !.added = lists]
    /\ log' = Append(log, [call EXCEPT !.g = g])
    /\ UNCHANGED <<kwargs, pc, err, p, properties, encsize, charindex, out,
                   mkcalls, argv, dest, file, usage, exitcode, font>>

\* A builder call on the GlyphProxy of glyph g (1-based): the spline lists
\* it produced go to the glyph by appendSplines, one call per list.
Build(g, call, lists) ==
    /\ pc = "glyphs"
    /\ g \in 1..Len(chars)
    /\ chars' = [chars EXCEPT ![g].properties = appendEach(@, lists)]
    /\ calls' = [calls EXCEPT ![g] = Append(@, lists)]
    /\ last' = [call EXCEPT !.g = g, !.added = lists]
    /\ log' = Append(log, [call EXCEPT !.g = g])
    /\ UNCHANGED <<kwargs, pc, err, p, properties, encsize, charindex, out,
                   mkcalls, argv, dest, file, usage, exitcode, font>>

Rect(g, x1, y1, x2, y2) ==
    Build(g, [NoCall EXCEPT !.op = "rect", !.args = <<x1, y1, x2, y2>>],
          rect(p, x1, y1, x2, y2))

Poly(g, points) ==
    Build(g, [NoCall EXCEPT !.op = "poly", !.args = points],
          poly(p, points))

Shade(g, rows, cols, inverse) ==
    Build(g, [NoCall EXCEPT !.op = "shade", !.rows = rows, !.cols = cols,
                            !.inverse = inverse],
          shade(p, rows, cols, inverse))

LtShade(g, rows, cols) ==
    Build(g, [NoCall EXCEPT !.op = "ltshade", !.rows = rows, !.cols = cols],
          ltshade(p, rows, cols))

DkShade(g, rows, cols) ==
    Build(g, [NoCall EXCEPT !.op = "dkshade", !.rows = rows, !.cols = cols],
          dkshade(p, rows, cols))

Bitmap(g, rows, cols, n) ==
    Build(g, [NoCall EXCEPT !.op = "bitmap", !.rows = rows, !.cols = cols,
                            !.n = n],
          bitmap(p, rows, cols, n))

Sepmap(g, rows, cols, n) ==
    Build(g, [NoCall EXCEPT !.op = "sepmap", !.rows = rows, !.cols = cols,
                            !.n = n],
          sepmap(p, rows, cols, n))

\* A mutant of output: the glyphs written in the order of a dictionary of
\* their names, which is any order.
outputDictOrder ==
    /\ pc = "glyphs"
    /\ \E f \in [1..Len(chars) -> 1..Len(chars)] :
          /\ \A i, j \in 1..Len(chars) : i # j => f[i] # f[j]
          /\ out' = SfdPrint(properties, encsize,
                             [i \in 1..Len(chars) |-> chars[f[i]]])
    /\ file' = IF dest = None THEN file ELSE Written(out')
    /\ exitcode' = <<0>>
    /\ pc' = "done"
    /\ UNCHANGED <<kwargs, err, p, properties, encsize, chars, charindex,
                   mkcalls, calls, last, argv, dest, usage, log, font>>

\* FontProxy.output
output ==
    /\ pc = "glyphs"
    /\ out' = SfdPrint(properties, encsize, chars)
    /\ file' = IF dest = None THEN file ELSE Written(out')
    /\ exitcode' = <<0>>
    /\ pc' = "done"
    /\ UNCHANGED <<kwargs, err, p, properties, encsize, chars, charindex,
                   mkcalls, calls, last, argv, dest, usage, log, font>>

RECURSIVE TotalCalls(_)
TotalCalls(cs) == IF cs = <<>> THEN 0 ELSE Len(Head(cs)) + TotalCalls(Tail(cs))

Triangles == { << <<R(0), R(0)>>, <<R(1), R(0)>>, <<R(0), R(1)>> >> }

\* A run of slcgen: the font is set up, glyphs are made and built in any
\* order, and the font is written.
MakeGlyph ==
    /\ Len(mkcalls) < MaxGlyphCalls
    /\ \E name \in Names, cp \in Codepoints : mkglyph(name, cp)

BuildGlyph ==
    /\ TotalCalls(calls) < MaxBuilderCalls
    /\ \E g \in 1..Len(chars) :
        \/ \E x1 \in {R(0), Q(1, 2)} : Rect(g, x1, R(0), R(1), R(1))
        \/ \E t \in Triangles : Poly(g, t)
        \/ Shade(g, 2, 2, FALSE)

Init == InitWith(RunKwargs)
Next == slcgen \/ MakeGlyph \/ BuildGlyph \/ output
Spec == Init /\ [][Next]_vars

\* Parameter resolution over every combination of overrides.
InitParams == InitWith(ParamKwargs)
NextParams == slcgen
SpecParams == InitParams /\ [][NextParams]_vars

\* One grid-pattern builder call on a fresh glyph.
Fresh == pc = "glyphs" /\ Len(chars) = 1 /\ calls[1] = <<>>

FirstGlyph == chars = <<>> /\ mkglyph("a", 65)

Pattern ==
    /\ Fresh
    /\ \/ \E rows \in 1..MaxRows, cols \in 1..MaxCols :
            \/ \E inverse \in BOOLEAN : Shade(1, rows, cols, inverse)
            \/ LtShade(1, rows, cols)
            \/ DkShade(1, rows, cols)
       \/ \E rows \in 1..MaxBitRows, cols \in 1..MaxBitCols,
             n \in 0..(2 ^ MaxBits - 1) : Bitmap(1, rows, cols, n)

InitPattern == InitWith(PatternKwargs)
NextPattern == slcgen \/ FirstGlyph \/ Pattern
SpecPattern == InitPattern /\ [][NextPattern]_vars

\* One separated-mosaic call on a fresh glyph, over a range of separations.
Mosaic ==
    /\ Fresh
    /\ \E rows \in 1..MaxBitRows, cols \in 1..MaxBitCols,
          n \in 0..(2 ^ MaxBits - 1) : Sepmap(1, rows, cols, n)

InitSepmap == InitWith(SepmapKwargs)
NextSepmap == slcgen \/ FirstGlyph \/ Mosaic
SpecSepmap == InitSepmap /\ [][NextSepmap]_vars

\* A rectangle on a fresh glyph, and then the same rectangle with its
\* corners given in the other order.
UnitSteps == {R(0), Q(1, 3), Q(1, 2), R(1)}

Corner ==
    /\ Fresh
    /\ \E x1, y1, x2, y2 \in UnitSteps : Rect(1, x1, y1, x2, y2)

Swapped ==
    /\ pc = "glyphs" /\ Len(chars) = 1 /\ Len(calls[1]) = 1
    /\ last.op = "rect"
    /\ Rect(1, last.args[3], last.args[4], last.args[1], last.args[2])

RectKwargs ==
    { NoKwargs, SmallEm,
      [NoKwargs EXCEPT !.ascent = R(7), !.descent = R(2), !.width = R(5)],
      [NoKwargs EXCEPT !.ascent = R(10)],
      [NoKwargs EXCEPT !.ascent = R(6)] }

InitRect == InitWith(RectKwargs)
NextRect == slcgen \/ FirstGlyph \/ Corner \/ Swapped
SpecRect == InitRect /\ [][NextRect]_vars

----------------------------------------------------------------------------
(* Box drawing in the Sfd variant, for lines of two points that run along  *)
(* an axis.  A shape is the sequence of its rectangles <<x1, y1, x2, y2>>,  *)
(* least corner first.                                                     *)

\* shapely.LineString of the design points of a line.
LineString(params, line) ==
    [i \in 1..Len(line) |->
        <<RMul(params.width, line[i][1]),
          RSub(params.ascent, RMul(params.height, line[i][2]))>>]

\* A mutant of bufferFlat: square caps, which reach past the end points.
bufferSquare(ls, d) ==
    IF IsZero(d) THEN <<>>
    ELSE << <<RSub(RMin(ls[1][1], ls[2][1]), d), RSub(RMin(ls[1][2], ls[2][2]), d),
              RAdd(RMax(ls[1][1], ls[2][1]), d), RAdd(RMax(ls[1][2], ls[2][2]), d)>> >>

\* shapely.buffer(shape, d, cap_style='flat', join_style='mitre') of a
\* segment along an axis: the rectangle reaching d to both sides of it, and
\* the empty polygon when d is 0.
bufferFlat(ls, d) ==
    IF IsZero(d) THEN <<>>
    ELSE IF ls[1][2] = ls[2][2]
    THEN << <<RMin(ls[1][1], ls[2][1]), RSub(ls[1][2], d),
              RMax(ls[1][1], ls[2][1]), RAdd(ls[1][2], d)>> >>
    ELSE << <<RSub(ls[1][1], d), RMin(ls[1][2], ls[2][2]),
              RAdd(ls[1][1], d), RMax(ls[1][2], ls[2][2])>> >>

\* GlyphProxy._boxdrawline(line, weight, False)
boxdrawline(params, line, weight) ==
    bufferFlat(LineString(params, line), RDiv(weight, R(2)))

\* part.area
area(r) == RMul(RSub(r[3], r[1]), RSub(r[4], r[2]))

\* shapely.get_coordinates of the ring of a normalized rectangle: from the
\* least corner, clockwise, closed.  simplify(shape, 0.5) keeps the four
\* corners of a rectangle whose sides are 1 or longer.
ringCoordinates(r) ==
    << <<r[1], r[2]>>, <<r[1], r[4]>>, <<r[3], r[4]>>, <<r[3], r[2]>>,
       <<r[1], r[2]>> >>

\* GlyphProxy._rawfromshapely
RECURSIVE rawfromshapely(_)
rawfromshapely(shape) ==
    IF shape = <<>> THEN <<>>
    ELSE (IF IsZero(area(Head(shape))) THEN <<>>
          ELSE rawpoly(ringCoordinates(Head(shape))))
         \o rawfromshapely(Tail(shape))

\* GlyphProxy.boxdrawlight(line) and boxdrawheavy(line), one line each: the
\* union of one shape is that shape.
boxdrawlight(params, line) ==
    rawfromshapely(boxdrawline(params, line, params.boxLightWeight))

boxdrawheavy(params, line) ==
    rawfromshapely(boxdrawline(params, line, params.boxHeavyWeight))

BoxDrawLight(g, line) ==
    Build(g, [NoCall EXCEPT !.op = "boxdrawlight", !.args = line],
          boxdrawlight(p, line))

BoxDrawHeavy(g, line) ==
    Build(g, [NoCall EXCEPT !.op = "boxdrawheavy", !.args = line],
          boxdrawheavy(p, line))

\* The lines of U+2500 and U+2502.
HorizontalLine == << <<R(0), Q(1, 2)>>, <<R(1), Q(1, 2)>> >>
VerticalLine == << <<Q(1, 2), R(0)>>, <<Q(1, 2), R(1)>> >>

\* Ems of 9 units and more, with the light weight left to its default or
\* set to an integer, as -bl sets it.
BoxKwargs ==
    { [k EXCEPT !.boxLightWeight = w] :
        k \in { NoKwargs,
                [NoKwargs EXCEPT !.ascent = R(10)],
                [NoKwargs EXCEPT !.width = R(600)],
                [NoKwargs EXCEPT !.ascent = R(7), !.descent = R(2)],
                [NoKwargs EXCEPT !.ascent = R(801), !.width = R(5)] },
        w \in Opt({0, 1, 2, 3, 111}) }

\* One box-drawing call on a fresh glyph.
Stroke ==
    /\ Fresh
    /\ \E line \in {HorizontalLine, VerticalLine} :
          \/ BoxDrawLight(1, line)
          \/ BoxDrawHeavy(1, line)

InitBox == InitWith(BoxKwargs)
NextBox == slcgen \/ FirstGlyph \/ Stroke
SpecBox == InitBox /\ [][NextBox]_vars

\* The point a - (b - a).
Beyond(a, b) ==
    <<RSub(a[1], RSub(b[1], a[1])), RSub(a[2], RSub(b[2], a[2]))>>

\* A mutant of extendpoints: the end points kept, the new points added.
extendpointsKeepEnds(points) ==
    << Beyond(points[1], points[2]) >>
      \o points
      \o << Beyond(points[Len(points)], points[Len(points) - 1]) >>

\* GlyphProxy._extendpoints
extendpoints(points) ==
    << Beyond(points[1], points[2]) >>
      \o SubSeq(points, 2, Len(points) - 1)
      \o << Beyond(points[Len(points)], points[Len(points) - 1]) >>

\* The polylines of two and of three points on the corners, edge midpoints
\* and centre of the unit square.
HalfSteps == {R(0), Q(1, 2), R(1)}
HalfPoints == HalfSteps \X HalfSteps
Polylines ==
    (HalfPoints \X HalfPoints) \cup (HalfPoints \X HalfPoints \X HalfPoints)

\* _extendpoints called by the proxy of a fresh glyph; the call and its
\* result are kept in last.
Extend ==
    /\ Fresh /\ last = NoCall
    /\ \E points \in Polylines :
          last' = [NoCall EXCEPT !.op = "_extendpoints", !.g = 1,
                                 !.args = points,
                                 !.added = extendpoints(points)]
    /\ UNCHANGED <<kwargs, pc, err, p, properties, encsize, chars, charindex,
                   out, mkcalls, calls, argv, dest, file, usage, exitcode,
                   log, font>>

InitExtend == InitWith({NoKwargs})
NextExtend == slcgen \/ FirstGlyph \/ Extend
SpecExtend == InitExtend /\ [][NextExtend]_vars

\* Glyphs made under names that repeat: the calls of mkglyph alone.
MaxIndexCalls == 3      \* mkglyph calls in one run of the glyph index
IndexNames == {"a", "b", "c"}
IndexCodepoints == {65, 66}

IndexGlyph ==
    /\ Len(mkcalls) < MaxIndexCalls
    /\ \E name \in IndexNames, cp \in IndexCodepoints : mkglyph(name, cp)

InitIndex == InitWith({NoKwargs})
NextIndex == slcgen \/ IndexGlyph
SpecIndex == InitIndex /\ [][NextIndex]_vars

----------------------------------------------------------------------------
(* Diagonal fill in the Sfd variant, for the fill and space weights that   *)
(* -df and -ds set and the angles whose rotation is exact: 0, 90, -90 and  *)
(* 180 degrees (shapely.affinity.rotate takes a sine or cosine below       *)
(* 2.5e-16 for 0).  With a space weight above 0 the stripes do not touch,   *)
(* and their union is the stripes themselves.                              *)

RNeg(a) == <<-a[1], a[2]>>

\* The stripes of diagfill before the rotation, as <<lo, hi>> across the
\* stripe direction: the one through the origin and n on either side.
stripes(fill, space, n) ==
    { <<RNeg(RDiv(fill, R(2))), RDiv(fill, R(2))>> }
      \cup UNION { LET y1 == RAdd(RMul(Q(2 * y + 3, 2), fill),
                              RMul(R(y + 1), space))
                       y2 == RAdd(RMul(Q(2 * y + 1, 2), fill),
                              RMul(R(y + 1), space))
                   IN  { <<y2, y1>>, <<RNeg(y1), RNeg(y2)>> } : y \in 0..(n - 1) }

\* shapely.affinity.rotate(shape, angle, origin=(0,0)) of a rectangle.
rotate(r, angle) ==
    CASE angle = 0 -> r
      [] angle = 90 -> <<RNeg(r[4]), r[1], RNeg(r[2]), r[3]>>
      [] angle = -90 -> <<r[2], RNeg(r[3]), r[4], RNeg(r[1])>>
      [] angle = 180 -> <<RNeg(r[3]), RNeg(r[4]), RNeg(r[1]), RNeg(r[2])>>

translate(r, dx, dy) ==
    <<RAdd(r[1], dx), RAdd(r[2], dy), RAdd(r[3], dx), RAdd(r[4], dy)>>

\* shapely.intersection of two rectangles; the corners cross when they do
\* not meet.
intersection(b, r) ==
    <<RMax(b[1], r[1]), RMax(b[2], r[2]), RMin(b[3], r[3]), RMin(b[4], r[4])>>

HasArea(r) == RLt(r[1], r[3]) /\ RLt(r[2], r[4])

\* shapely.normalize: the polygons in descending order of their least
\* corner.
Before(r, q) ==
    RLt(q[1], r[1]) \/ (q[1] = r[1] /\ RLt(q[2], r[2]))

RECURSIVE Descending(_)
Descending(S) ==
    IF S = {} THEN <<>>
    ELSE LET r == CHOOSE r \in S : \A q \in S \ {r} : Before(r, q)
         IN  <<r>> \o Descending(S \ {r})

\* GlyphProxy.diagfill(angle), with params.diagonalFillWeight = fill and
\* params.diagonalSpaceWeight = space.
diagfill(params, fill, space, angle) ==
    LET x == RAdd(params.height, params.width)
        n == round(RDiv(x, RAdd(fill, space)))
        boxes == { <<RNeg(x), b[1], x, b[2]>> : b \in stripes(fill, space, n) }
        em == <<R(0), RNeg(params.descent), params.width, params.ascent>>
        shape == { intersection(em,
                       translate(rotate(r, angle),
                                 RDiv(params.width, R(2)),
                                 RSub(params.ascent, RDiv(params.height, R(2)))))
                   : r \in boxes }
    IN  rawfromshapely(Descending({ r \in shape : HasArea(r) }))

DiagFill(g, fill, space, angle) ==
    Build(g, [NoCall EXCEPT !.op = "diagfill", !.args = <<fill, space, angle>>],
          diagfill(p, fill, space, angle))

\* Ems with integer and with half-integer sides (-a 6 gives a descent of
\* 1.5 and a width of 7.5).
DiagKwargs ==
    { SmallEm,
      [NoKwargs EXCEPT !.ascent = R(6)],
      [NoKwargs EXCEPT !.ascent = R(10)],
      [NoKwargs EXCEPT !.descent = R(3)],
      [NoKwargs EXCEPT !.ascent = R(7), !.descent = R(2)],
      [NoKwargs EXCEPT !.ascent = R(8), !.descent = R(2), !.width = R(6)],
      [NoKwargs EXCEPT !.ascent = R(16)],
      [NoKwargs EXCEPT !.ascent = R(16), !.width = R(12)] }

\* One diagonal fill on a fresh glyph.
Hatch ==
    /\ Fresh
    /\ \E fill \in {R(2), R(5)}, space \in {R(1), R(3)},
          angle \in {0, 90, -90, 180} : DiagFill(1, fill, space, angle)

InitDiag == InitWith(DiagKwargs)
NextDiag == slcgen \/ FirstGlyph \/ Hatch
SpecDiag == InitDiag /\ [][NextDiag]_vars

----------------------------------------------------------------------------
(* The fontforge variant: the font is a fontforge object, a glyph is the   *)
(* encoding slot of its codepoint, and a contour is a closed sequence of   *)
(* points.                                                                 *)

hasChar(f, cp) == \E i \in 1..Len(f) : f[i].cp = cp

slot(f, cp) == CHOOSE i \in 1..Len(f) : f[i].cp = cp

\* font.createChar(cp): the glyph of the slot, created empty if the slot
\* is free.
createChar(f, cp) ==
    IF hasChar(f, cp) THEN f
    ELSE Append(f, [cp |-> cp, width |-> None, contours |-> <<>>])

\* The closed contour a sequence of pen calls draws.
penContour(ops) ==
    [i \in 1..(Len(ops) - 1) |-> <<R(ops[i][2]), R(ops[i][3])>>]

\* FontProxy.mkglyph of the fontforge variant, on the font.
ffmkglyph(f, params, cp) ==
    LET f1 == createChar(f, cp)
    IN  [f1 EXCEPT ![slot(f1, cp)].contours = <<>>,
                   ![slot(f1, cp)].width = params.width]

\* GlyphProxy.rect of the fontforge variant, on the glyph of cp.
ffrect(f, params, cp, x1, y1, x2, y2) ==
    [f EXCEPT ![slot(f, cp)].contours =
                 Append(@, penContour(penrect(params, x1, y1, x2, y2)))]

\* glyph.stroke('circular', weight, 'butt', 'miter') of the open path a-b,
\* for a horizontal or a vertical segment: the rectangle of that width
\* around the segment, its caps cut at the end points.
stroke(a, b, weight) ==
    LET h == RDiv(weight, R(2))
    IN  IF a[2] = b[2]
        THEN << << <<R(a[1]), RAdd(R(a[2]), h)>>, <<R(b[1]), RAdd(R(b[2]), h)>>,
                   <<R(b[1]), RSub(R(b[2]), h)>>, <<R(a[1]), RSub(R(a[2]), h)>> >> >>
        ELSE << << <<RSub(R(a[1]), h), R(a[2])>>, <<RSub(R(b[1]), h), R(b[2])>>,
                   <<RAdd(R(b[1]), h), R(b[2])>>, <<RAdd(R(a[1]), h), R(a[2])>> >> >>

\* The point of the design of a line, as the pen receives it.
penPoint(params, q) ==
    <<round(RMul(params.width, q[1])),
      round(RSub(params.ascent, RMul(params.height, q[2])))>>

\* A mutant of ffboxdrawline: the glyph of U+0020 is left as the stroke
\* made it.
ffboxdrawlineKeep(f, params, cp, line, weight) ==
    LET f1 == createChar(f, 32)
        tmp == slot(f1, 32)
        f2 == [f1 EXCEPT ![tmp].contours =
                  stroke(penPoint(params, line[1]), penPoint(params, line[2]),
                         weight)]
    IN  [f2 EXCEPT ![slot(f2, cp)].contours = @ \o f2[tmp].contours]

\* GlyphProxy._boxdrawline(line, weight, False) of the fontforge variant, for
\* a line of two points: the path is drawn and stroked in the glyph of
\* U+0020, copied from there to the glyph of cp, and the glyph of U+0020 is
\* cleared.
ffboxdrawline(f, params, cp, line, weight) ==
    LET f1 == createChar(f, 32)
        tmp == slot(f1, 32)
        f2 == [f1 EXCEPT ![tmp].contours =
                  stroke(penPoint(params, line[1]), penPoint(params, line[2]),
                         weight)]
        f3 == [f2 EXCEPT ![slot(f2, cp)].contours = @ \o f2[tmp].contours]
    IN  [f3 EXCEPT ![tmp].contours = <<>>, ![tmp].width = params.width]

\* A contour with its points rounded, as rawpoly gives them to the pen.
roundContour(c) ==
    [j \in 1..Len(c) |-> <<R(round(c[j][1])), R(round(c[j][2]))>>]

\* GlyphProxy._stripcontrolpoints: the glyph is cleared and its contours
\* are drawn again by rawpoly.
stripcontrolpoints(f, params, cp) ==
    [f EXCEPT ![slot(f, cp)].contours =
                 [c \in 1..Len(@) |-> roundContour(@[c])],
              ![slot(f, cp)].width = params.width]

\* GlyphProxy.boxdrawlight(line) of the fontforge variant: one line, whose
\* rectangle removeOverlap and simplify leave as it is.
ffboxdrawlight(f, params, cp, line) ==
    stripcontrolpoints(
        ffboxdrawline(f, params, cp, line, params.boxLightWeight), params, cp)

\* The proxies in hand: mkglyph has returned one for the glyph of cp.
Made(cp) ==
    \E i \in 1..Len(log) : log[i].op = "mkglyph" /\ log[i].args[2] = cp

MadeCount == Cardinality({i \in 1..Len(log) : log[i].op = "mkglyph"})

FFStep(entry, f) ==
    /\ pc = "glyphs"
    /\ font' = f
    /\ log' = Append(log, entry)
    /\ UNCHANGED <<kwargs, pc, err, p, properties, encsize, chars, charindex,
                   out, mkcalls, calls, last, argv, dest, file, usage,
                   exitcode>>

FFMkGlyph(name, cp) ==
    /\ MadeCount < MaxGlyphCalls
    /\ FFStep([NoCall EXCEPT !.op = "mkglyph", !.args = <<name, cp>>],
              ffmkglyph(font, p, cp))

FFRect(cp, x1, y1, x2, y2) ==
    /\ Made(cp)
    /\ Len(log) - MadeCount < MaxBuilderCalls
    /\ FFStep([NoCall EXCEPT !.op = "rect", !.g = cp,
                             !.args = <<x1, y1, x2, y2>>,
                             !.added = << penContour(penrect(p, x1, y1, x2, y2)) >>],
              ffrect(font, p, cp, x1, y1, x2, y2))

FFBoxDrawLight(cp, line) ==
    /\ Made(cp)
    /\ Len(log) - MadeCount < MaxBuilderCalls
    /\ FFStep([NoCall EXCEPT !.op = "boxdrawlight", !.g = cp, !.args = line,
                             !.added =
                                << roundContour(
                                      stroke(penPoint(p, line[1]),
                                             penPoint(p, line[2]),
                                             p.boxLightWeight)[1]) >>],
              ffboxdrawlight(font, p, cp, line))

\* The glyphs of the run: SPACE, BOX DRAWINGS LIGHT HORIZONTAL and BOX
\* DRAWINGS LIGHT VERTICAL.
FFCodepoints == {32, 9472, 9474}

FFMakeGlyph == \E cp \in FFCodepoints : FFMkGlyph("g", cp)

FFBuildGlyph ==
    \E cp \in FFCodepoints :
        \/ FFRect(cp, R(0), R(0), R(1), Q(1, 2))
        \/ \E line \in {HorizontalLine, VerticalLine} : FFBoxDrawLight(cp, line)

InitFF == InitWith({NoKwargs, SmallEm})
NextFF == slcgen \/ FFMakeGlyph \/ FFBuildGlyph
SpecFF == InitFF /\ [][NextFF]_vars

----------------------------------------------------------------------------
(* main: the command line.  An argument is a sequence of characters, so     *)
(* that startswith('-'), int() and float() are decided character by       *)
(* character.  The arguments drawn below use digits, signs, '.' and        *)
(* letters; int() and float() are modelled on that alphabet (no blanks,    *)
(* underscores or exponents).                                              *)

Digits == {"0", "1", "2", "3", "4", "5", "6", "7", "8", "9"}

DigitVal(c) ==
    CASE c = "0" -> 0 [] c = "1" -> 1 [] c = "2" -> 2 [] c = "3" -> 3
      [] c = "4" -> 4 [] c = "5" -> 5 [] c = "6" -> 6 [] c = "7" -> 7
      [] c = "8" -> 8 [] c = "9" -> 9

\* The argument without its sign.
Unsigned(arg) ==
    IF arg # <<>> /\ Head(arg) \in {"-", "+"} THEN Tail(arg) ELSE arg

\* int(arg) does not raise ValueError.
IsInt(arg) ==
    /\ Unsigned(arg) # <<>>
    /\ \A i \in 1..Len(Unsigned(arg)) : Unsigned(arg)[i] \in Digits

RECURSIVE DecimalValue(_, _)
DecimalValue(ds, acc) ==
    IF ds = <<>> THEN acc
    ELSE DecimalValue(Tail(ds), 10 * acc + DigitVal(Head(ds)))

\* abs(int(arg))
AbsInt(arg) == DecimalValue(Unsigned(arg), 0)

\* float(arg) does not raise ValueError.
IsFloat(arg) ==
    LET u == Unsigned(arg)
        dots == {i \in 1..Len(u) : u[i] = "."}
    IN  /\ Cardinality(dots) <= 1
        /\ \A i \in 1..Len(u) : u[i] \in Digits \cup {"."}
        /\ \E i \in 1..Len(u) : u[i] \in Digits

\* A mutant of IntFlagKeys: -sv sets the top separation only.
IntFlagKeysTopOnly(flag) ==
    CASE flag = <<"-", "s", "t">> -> {"separationTop"}
      [] flag = <<"-", "s", "r">> -> {"separationRight"}
      [] flag = <<"-", "s", "b">> -> {"separationBottom"}
      [] flag = <<"-", "s", "l">> -> {"separationLeft"}
      [] flag = <<"-", "s", "v">> -> {"separationTop"}
      [] flag = <<"-", "s", "h">> -> {"separationRight", "separationLeft"}
      [] flag = <<"-", "s", "p">> -> {"separationTop", "separationRight",
                                      "separationBottom", "separationLeft"}
      [] flag = <<"-", "a">> -> {"ascent"}
      [] flag = <<"-", "d">> -> {"descent"}
      [] flag = <<"-", "w">> -> {"width"}
      [] flag = <<"-", "p", "h">> -> {"pixelHeight"}
      [] flag = <<"-", "p", "w">> -> {"pixelWidth"}
      [] flag = <<"-", "b", "l">> -> {"boxLightWeight"}
      [] flag = <<"-", "b", "h">> -> {"boxHeavyWeight"}
      [] flag = <<"-", "b", "g">> -> {"boxDoubleGap"}
      [] flag = <<"-", "b", "r">> -> {"boxArcRadius"}
      [] OTHER -> {}

\* The keyword arguments an integer flag sets.
IntFlagKeys(flag) ==
    CASE flag = <<"-", "a">> -> {"ascent"}
      [] flag = <<"-", "d">> -> {"descent"}
      [] flag = <<"-", "w">> -> {"width"}
      [] flag = <<"-", "p", "h">> -> {"pixelHeight"}
      [] flag = <<"-", "p", "w">> -> {"pixelWidth"}
      [] flag = <<"-", "b", "l">> -> {"boxLightWeight"}
      [] flag = <<"-", "b", "h">> -> {"boxHeavyWeight"}
      [] flag = <<"-", "b", "g">> -> {"boxDoubleGap"}
      [] flag = <<"-", "b", "r">> -> {"boxArcRadius"}
      [] flag = <<"-", "s", "t">> -> {"separationTop"}
      [] flag = <<"-", "s", "r">> -> {"separationRight"}
      [] flag = <<"-", "s", "b">> -> {"separationBottom"}
      [] flag = <<"-", "s", "l">> -> {"separationLeft"}
      [] flag = <<"-", "s", "v">> -> {"separationTop", "separationBottom"}
      [] flag = <<"-", "s", "h">> -> {"separationRight", "separationLeft"}
      [] flag = <<"-", "s", "p">> -> {"separationTop", "separationRight",
                                      "separationBottom", "separationLeft"}
      [] OTHER -> {}

\* The keyword argument a float flag sets (the diagonal-fill parameters,
\* whose values the model does not keep).
FloatFlagKeys(flag) ==
    CASE flag = <<"-", "d", "a">> -> {"diagonalFillAngle"}
      [] flag = <<"-", "d", "f">> -> {"diagonalFillWeight"}
      [] flag = <<"-", "d", "s">> -> {"diagonalSpaceWeight"}
      [] OTHER -> {}

Truncate == <<"t", "r", "u", "n", "c", "a", "t", "e">>
Cute == <<"c", "u", "t", "e">>

\* The state of the loop of main: help() was called, the pending flag, the
\* keyword arguments and their keys, and the path given with -o.
ParseState(help, flag, kw, keys, path) ==
    [help |-> help, flag |-> flag, kw |-> kw, keys |-> keys, path |-> path]

SetKeys(kw, K, v) == [k \in DOMAIN kw |-> IF k \in K THEN v ELSE kw[k]]

\* One value argument, for the flag before it.
TakeValue(flag, arg, kw, keys, path) ==
    IF IntFlagKeys(flag) # {}
    THEN IF IsInt(arg)
         THEN ParseState(FALSE, None, SetKeys(kw, IntFlagKeys(flag), R(AbsInt(arg))),
                         keys \cup IntFlagKeys(flag), path)
         ELSE ParseState(TRUE, flag, kw, keys, path)
    ELSE IF FloatFlagKeys(flag) # {}
    THEN IF IsFloat(arg)
         THEN ParseState(FALSE, None, kw, keys \cup FloatFlagKeys(flag), path)
         ELSE ParseState(TRUE, flag, kw, keys, path)
    ELSE IF flag = <<"-", "b", "t">>
    THEN IF arg = Truncate
         THEN ParseState(FALSE, None, SetKeys(kw, {"boxLineTruncate"}, <<TRUE>>),
                         keys \cup {"boxLineTruncate"}, path)
         ELSE IF arg = Cute
         THEN ParseState(FALSE, None, SetKeys(kw, {"boxLineTruncate"}, <<FALSE>>),
                         keys \cup {"boxLineTruncate"}, path)
         ELSE ParseState(TRUE, flag, kw, keys, path)
    ELSE IF flag = <<"-", "o">>
    THEN ParseState(FALSE, None, kw, keys \cup {"file"}, arg)
    ELSE ParseState(TRUE, flag, kw, keys, path)

\* The loop "for arg in sys.argv[1:]".
RECURSIVE ParseArgs(_, _, _, _, _)
ParseArgs(args, currentFlag, kw, keys, path) ==
    IF args = <<>> THEN ParseState(FALSE, currentFlag, kw, keys, path)
    ELSE IF currentFlag = None
    THEN IF Head(args) # <<>> /\ Head(Head(args)) = "-"
         THEN ParseArgs(Tail(args), Head(args), kw, keys, path)
         ELSE ParseState(TRUE, currentFlag, kw, keys, path)
    ELSE LET r == TakeValue(currentFlag, Head(args), kw, keys, path)
         IN  IF r.help THEN r
             ELSE ParseArgs(Tail(args), None, r.kw, r.keys, r.path)

\* The keyword arguments of SLCParameters.__init__: the override fields
\* and the output file.
OverrideFields ==
    {"ascent", "descent", "width", "pixelHeight", "pixelWidth",
     "diagonalFillAngle", "diagonalFillWeight", "diagonalSpaceWeight",
     "boxLightWeight", "boxHeavyWeight", "boxDoubleGap", "boxArcRadius",
     "boxTickLength", "boxLineTruncate",
     "separationTop", "separationRight", "separationBottom",
     "separationLeft"}

\* The flags of one or two letters, and a value of each kind.
FlagLetters ==
    {"a", "b", "d", "f", "g", "h", "k", "l", "o", "p", "r", "s", "t", "v", "w"}

Flags ==
    { <<"-", c>> : c \in FlagLetters }
      \cup { <<"-", c, d>> : c \in FlagLetters, d \in FlagLetters }

Values == { <<"7">>, <<"1", ".", "5">>, <<"t", "r", "u", "n", "c", "a", "t", "e">>,
            <<"c", "u", "t", "e">>, <<"f">> }

\* The keys the pair (flag, value) sets when main accepts it.
KeysSet(flag, value) ==
    LET r == ParseArgs(<<flag, value>>, None, NoKwargs, {}, None)
    IN  IF r.help \/ r.flag # None THEN {} ELSE r.keys

\* main calls help() and returns.
ShowsHelp(r) == r.help \/ r.keys = {} \/ r.flag # None

\* open(path, 'w') succeeds: the empty path names no file on any system;
\* every other path is taken to be writable.
CanOpen(path) == path # <<>>

\* main: the arguments are parsed; on a bad command line help() prints the
\* usage message and main returns; otherwise the file named by -o is opened
\* for writing, which creates or truncates it, and slcgen is entered.  When
\* the file cannot be opened, open raises and main ends with the exception.
main ==
    /\ pc = "main"
    /\ LET r == ParseArgs(argv, None, NoKwargs, {}, None)
       IN  IF ShowsHelp(r)
           THEN /\ usage' = TRUE
                /\ exitcode' = <<0>>
                /\ pc' = "exit"
                /\ UNCHANGED <<kwargs, dest, file, err>>
           ELSE IF "file" \in r.keys /\ ~CanOpen(r.path)
           THEN /\ err' = "FileNotFoundError"
                /\ exitcode' = <<1>>
                /\ pc' = "aborted"
                /\ UNCHANGED <<kwargs, dest, file, usage>>
           ELSE /\ kwargs' = r.kw
                /\ dest' = r.path
                /\ file' = IF r.path = None THEN file ELSE Written(<<>>)
                /\ pc' = "slcgen"
                /\ UNCHANGED <<usage, exitcode, err>>
    /\ UNCHANGED <<p, properties, encsize, chars, charindex, out,
                   mkcalls, calls, last, argv, log, font>>

\* Arguments.
Flag1(c) == <<"-", c>>
Flag2(c, d) == <<"-", c, d>>
Path == <<"f">>

GoodArgv ==
    { << Flag1("a"), <<"1", "0">> >>,
      << Flag1("a"), <<"8", "0", "0">>, Flag1("o"), Path >>,
      << Flag1("o"), Path >>,
      << Flag1("w"), <<"0">> >>,
      << Flag1("o"), Path, Flag1("w"), <<"0">> >>,
      << Flag1("d"), <<"0">>, Flag1("a"), <<"0">>, Flag1("o"), Path >>,
      << Flag1("a"), <<"-", "4">> >>,
      << Flag1("a"), <<"+", "8">>, Flag1("a"), <<"4", "0">> >>,
      << Flag2("p", "w"), <<"0">>, Flag1("o"), Path >>,
      << Flag2("s", "p"), <<"0">> >>,
      << Flag2("s", "v"), <<"3">>, Flag2("s", "h"), <<"5">> >>,
      << Flag2("b", "t"), Cute >>,
      << Flag2("b", "t"), Truncate, Flag1("o"), Path >>,
      << Flag2("d", "a"), <<"4", ".", "5">> >>,
      << Flag2("d", "f"), <<"7">>, Flag1("o"), Path >> }

BadArgv ==
    { << >>,
      << <<"x">> >>,
      << << >> >>,
      << Flag1("a") >>,
      << Flag1("a"), <<"x">> >>,
      << Flag1("a"), <<"1", ".", "5">> >>,
      << Flag1("a"), << >> >>,
      << Flag2("z", "z"), <<"1">> >>,
      << Flag2("b", "t"), <<"x">> >>,
      << Flag2("d", "a"), <<"x">> >>,
      << Flag1("a"), <<"1", "0">>, <<"x">> >>,
      << Flag1("a"), <<"1", "0">>, Flag1("o") >>,
      << Flag1("o"), Path, Flag1("a"), <<"x">> >>,
      << Flag1("o"), Path, Flag2("z", "z"), <<"1">> >>,
      << Flag1("o"), Path, Flag2("b", "t") >> }

\* Two separation flags in a row, single and shorthand, with values that
\* parse and one that does not.
SeparationFlags ==
    { Flag2("s", c) : c \in {"t", "r", "b", "l", "v", "h", "p"} }

ShorthandArgv ==
    { <<f1, v1, f2, v2>> :
        f1 \in SeparationFlags, f2 \in SeparationFlags,
        v1 \in { <<"3">>, <<"-", "5">>, <<"x">> }, v2 \in { <<"0">>, <<"3">> } }

\* Command lines whose -o names the empty path.
UnopenableArgv ==
    { << Flag1("o"), << >> >>,
      << Flag1("a"), <<"7">>, Flag1("o"), << >> >> }

Previous == Written(<< Line("previous") >>)

\* A run entered at main, the destination absent or holding an earlier file.
InitMain ==
    /\ argv \in GoodArgv \cup BadArgv \cup ShorthandArgv \cup UnopenableArgv
    /\ file \in {Absent, Previous}
    /\ pc = "main"
    /\ kwargs = NoKwargs
    /\ err = "none"
    /\ p = None
    /\ properties = <<>>
    /\ encsize = 0
    /\ chars = <<>>
    /\ charindex = <<>>
    /\ out = <<>>
    /\ mkcalls = <<>>
    /\ calls = <<>>
    /\ last = NoCall
    /\ dest = None
    /\ usage = FALSE
    /\ exitcode = <<>>
    /\ log = <<>>
    /\ font = <<>>

\* One glyph, built by at most one call.
Draw ==
    /\ Fresh
    /\ \/ Rect(1, R(0), R(0), R(1), R(1))
       \/ Rect(1, R(1), R(0), R(1), R(1))
       \/ Shade(1, 2, 2, FALSE)

NextMain == main \/ slcgen \/ FirstGlyph \/ Draw \/ output
SpecMain == InitMain /\ [][NextMain]_vars

----------------------------------------------------------------------------
(* Reading a glyph back: its contours and the region they fill.            *)

IsSpline(l) == l[1] \in {"m", "l"}

\* The spline lines of a properties list, in order.
Splines(props) == SelectSeq(props, IsSpline)

\* The spline lists of one builder call, or of all calls of a glyph, as one
\* list of lines.
RECURSIVE Flatten(_)
Flatten(lists) ==
    IF lists = <<>> THEN <<>> ELSE Head(lists) \o Flatten(Tail(lists))

CountOf(s, t) == Cardinality({i \in 1..Len(s) : s[i][1] = t})

NumContours(L) == CountOf(L, "m")

PointSet(L) == {<<L[i][2], L[i][3]>> : i \in 1..Len(L)}

\* The winding number of the contours L about the point <<cx2/2, cy2/2>>,
\* every contour closed back to its move point.
Crossing(a, b, cx2, cy2) ==
    LET side == (2 * b[1] - 2 * a[1]) * (cy2 - 2 * a[2])
                  - (cx2 - 2 * a[1]) * (2 * b[2] - 2 * a[2])
    IN  IF 2 * a[2] <= cy2 /\ cy2 < 2 * b[2] /\ side > 0 THEN 1
        ELSE IF 2 * b[2] <= cy2 /\ cy2 < 2 * a[2] /\ side < 0 THEN -1
        ELSE 0

MoveOf(L, i) == CHOOSE j \in 1..i :
    L[j][1] = "m" /\ \A k \in (j + 1)..i : L[k][1] # "m"

RECURSIVE WindingFrom(_, _, _, _)
WindingFrom(L, i, cx2, cy2) ==
    IF i > Len(L) THEN 0
    ELSE LET here == <<L[i][2], L[i][3]>>
             drawn == IF L[i][1] = "l"
                      THEN Crossing(<<L[i - 1][2], L[i - 1][3]>>, here, cx2, cy2)
                      ELSE 0
             closed == IF i = Len(L) \/ L[i + 1][1] = "m"
                       THEN LET m == MoveOf(L, i)
                            IN  Crossing(here, <<L[m][2], L[m][3]>>, cx2, cy2)
                       ELSE 0
         IN  drawn + closed + WindingFrom(L, i + 1, cx2, cy2)

\* Nonzero fill rule.
Covers(L, cx2, cy2) == WindingFrom(L, 1, cx2, cy2) # 0

\* Design-space grid lines of a rows x cols grid over the em box.
GridX(x, cols) == round(RMul(p.width, Q(x, cols)))
GridY(y, rows) == round(RSub(p.ascent, RMul(p.height, Q(y, rows))))

\* Every cell of the grid has positive width and height in design space.
GridDistinct(rows, cols) ==
    /\ \A x \in 0..(cols - 1) : GridX(x, cols) < GridX(x + 1, cols)
    /\ \A y \in 0..(rows - 1) : GridY(y, rows) > GridY(y + 1, rows)

\* The grid cells whose centre the contours L fill.
FilledCells(L, rows, cols) ==
    {c \in GridBox(rows, cols) :
        Covers(L, GridX(c[1], cols) + GridX(c[1] + 1, cols),
                  GridY(c[2], rows) + GridY(c[2] + 1, rows))}

Built == pc \in {"glyphs", "done"}
LastGlyph == Splines(chars[last.g].properties)

----------------------------------------------------------------------------
(* Claims.                                                                 *)

Resolved == pc # "slcgen"

NonPositive(a) == a[1] <= 0

\* C1: whenever the resolved width, height, pixelWidth or pixelHeight is
\* zero or negative, the run fails with an error before any glyph is built:
\* no glyph is created and nothing is output.
C1_InvalidDimensionFails ==
    (Resolved /\ (NonPositive(p.width) \/ NonPositive(p.height)
                    \/ NonPositive(p.pixelWidth) \/ NonPositive(p.pixelHeight)))
        => (err # "none" /\ chars = <<>> /\ out = <<>>)

\* C2: ascent is its override, else 4 * descent when descent is overridden,
\* else 800; descent is its override, else ascent / 4 when ascent is
\* overridden, else 200; height = ascent + descent; width is its override,
\* else height.  descent = 200 alone gives ascent 800, height 1000, width 1000.
C2_MetricsResolution ==
    Resolved =>
        /\ Given(kwargs.ascent) => p.ascent = kwargs.ascent
        /\ (~Given(kwargs.ascent) /\ Given(kwargs.descent))
              => p.ascent = RMul(R(4), kwargs.descent)
        /\ (~Given(kwargs.ascent) /\ ~Given(kwargs.descent))
              => (p.ascent = R(800) /\ p.descent = R(200))
        /\ Given(kwargs.descent) => p.descent = kwargs.descent
        /\ (~Given(kwargs.descent) /\ Given(kwargs.ascent))
              => RMul(R(4), p.descent) = kwargs.ascent
        /\ p.height = RAdd(p.ascent, p.descent)
        /\ Given(kwargs.width) => p.width = kwargs.width
        /\ ~Given(kwargs.width) => p.width = p.height
        /\ (kwargs.descent = R(200) /\ ~Given(kwargs.ascent)
                /\ ~Given(kwargs.width))
              => (p.ascent = R(800) /\ p.height = R(1000) /\ p.width = R(1000))

C2_Witness ==
    /\ Resolved
    /\ kwargs.descent = R(200) /\ ~Given(kwargs.ascent) /\ ~Given(kwargs.width)
    /\ p.width = R(1000)

\* C3: each resolved separation is its own override, else the override of
\* the opposite edge, else the override of the perpendicular pair when
\* exactly one edge of that pair was given, else height / 18.
SeparationRule(own, opposite, side1, side2) ==
    IF Given(own) THEN own
    ELSE IF Given(opposite) THEN opposite
    ELSE IF Given(side1) # Given(side2)
         THEN (IF Given(side1) THEN side1 ELSE side2)
    ELSE RDiv(p.height, R(18))

C3_SeparationResolution ==
    Resolved =>
        /\ p.separationTop =
              SeparationRule(kwargs.separationTop, kwargs.separationBottom,
                             kwargs.separationLeft, kwargs.separationRight)
        /\ p.separationBottom =
              SeparationRule(kwargs.separationBottom, kwargs.separationTop,
                             kwargs.separationLeft, kwargs.separationRight)
        /\ p.separationLeft =
              SeparationRule(kwargs.separationLeft, kwargs.separationRight,
                             kwargs.separationTop, kwargs.separationBottom)
        /\ p.separationRight =
              SeparationRule(kwargs.separationRight, kwargs.separationLeft,
                             kwargs.separationTop, kwargs.separationBottom)

\* Both perpendicular edges given and neither edge of the own axis: height / 18.
C3_Witness ==
    /\ Resolved
    /\ ~Given(kwargs.separationTop) /\ ~Given(kwargs.separationBottom)
    /\ kwargs.separationLeft = R(14) /\ kwargs.separationRight = R(12)
    /\ kwargs.ascent = R(10) /\ kwargs.descent = R(3)
    /\ p.separationTop = Q(13, 18)
    /\ p.separationLeft = R(14)

Bit(b) == IF b THEN 1 ELSE 0

\* C4: shade(rows, cols, inverse) fills cell (x, y) if and only if
\* ((x+y)&1) xor ((rows+cols)&1) xor (inverse ? 0 : 1) is 1, one contour
\* per filled cell and nothing for any other cell.
ParityCells(rows, cols, inverse) ==
    {c \in GridBox(rows, cols) :
        (((c[1] + c[2]) % 2) + ((rows + cols) % 2) + Bit(~inverse)) % 2 = 1}

C4_ShadeParity ==
    (Built /\ last.op = "shade" /\ GridDistinct(last.rows, last.cols)) =>
        /\ FilledCells(LastGlyph, last.rows, last.cols)
              = ParityCells(last.rows, last.cols, last.inverse)
        /\ NumContours(LastGlyph)
              = Cardinality(ParityCells(last.rows, last.cols, last.inverse))

C4_Witness ==
    /\ Built /\ last.op = "shade" /\ last.rows = 3 /\ last.cols = 4
    /\ last.inverse
    /\ GridDistinct(3, 4)
    /\ NumContours(LastGlyph) = 6
    /\ <<0, 0>> \in FilledCells(LastGlyph, 3, 4)
    /\ <<1, 0>> \notin FilledCells(LastGlyph, 3, 4)

\* C5 as stated: shade(2,2,false) fills exactly {(0,1),(1,0)} and
\* shade(2,2,true) fills exactly {(0,0),(1,1)}.
C5_AsStated ==
    (Built /\ last.op = "shade" /\ last.rows = 2 /\ last.cols = 2) =>
        FilledCells(LastGlyph, 2, 2) =
            IF last.inverse THEN {<<0, 0>>, <<1, 1>>} ELSE {<<0, 1>>, <<1, 0>>}

\* C5, amended: shade(2,2,false) fills exactly {(0,0),(1,1)} and
\* shade(2,2,true) fills exactly {(0,1),(1,0)}.
C5_Shade22 ==
    (Built /\ last.op = "shade" /\ last.rows = 2 /\ last.cols = 2) =>
        FilledCells(LastGlyph, 2, 2) =
            IF last.inverse THEN {<<0, 1>>, <<1, 0>>} ELSE {<<0, 0>>, <<1, 1>>}

C5_Witness ==
    /\ Built /\ last.op = "shade" /\ last.rows = 2 /\ last.cols = 2
    /\ ~last.inverse
    /\ NumContours(LastGlyph) = 2
    /\ FilledCells(LastGlyph, 2, 2) = {<<0, 0>>, <<1, 1>>}

\* C6: for even rows, the region dkshade(rows, cols) covers and the cells
\* ltshade(rows, cols) fills partition the rows x cols grid.
C6_DarkLightPartition ==
    (Built /\ last.op = "dkshade" /\ last.rows % 2 = 0
        /\ GridDistinct(last.rows, last.cols)) =>
        LET dark == FilledCells(LastGlyph, last.rows, last.cols)
            light == FilledCells(Flatten(ltshade(p, last.rows, last.cols)),
                                 last.rows, last.cols)
        IN  /\ dark \cup light = GridBox(last.rows, last.cols)
            /\ dark \cap light = {}

\* A dark shade with a hole: a light cell away from the border of the grid.
C6_Witness ==
    /\ Built /\ last.op = "dkshade" /\ last.rows = 4 /\ last.cols = 4
    /\ GridDistinct(4, 4)
    /\ NumContours(LastGlyph) = 2
    /\ FilledCells(LastGlyph, 4, 4)
          = GridBox(4, 4) \ {<<0, 0>>, <<2, 0>>, <<1, 2>>, <<3, 2>>}

\* C7: bitmap(rows, cols, n) fills exactly the cells (i mod cols, i div cols)
\* whose bit i of n is set, 0 <= i < rows*cols; bitmap(4,2,0) has no
\* contour and bitmap(4,2,255) is the one contour of the full rectangle.
MaskCells(rows, cols, n) ==
    {<<i % cols, i \div cols>> :
        i \in {j \in 0..(rows * cols - 1) : (n \div (2 ^ j)) % 2 = 1}}

EmBoxCorners ==
    {<<0, round(p.ascent)>>, <<round(p.width), round(p.ascent)>>,
     <<round(p.width), round(RSub(R(0), p.descent))>>,
     <<0, round(RSub(R(0), p.descent))>>}

C7_BitmapCells ==
    (Built /\ last.op = "bitmap" /\ GridDistinct(last.rows, last.cols)) =>
        /\ FilledCells(LastGlyph, last.rows, last.cols)
              = MaskCells(last.rows, last.cols, last.n)
        /\ (last.rows = 4 /\ last.cols = 2 /\ last.n = 0)
              => (LastGlyph = <<>>
                    /\ CountOf(chars[last.g].properties, "SplineSet") = 0)
        /\ (last.rows = 4 /\ last.cols = 2 /\ last.n = 255)
              => (NumContours(LastGlyph) = 1
                    /\ PointSet(LastGlyph) = EmBoxCorners)

C7_Witness ==
    /\ Built /\ last.op = "bitmap" /\ last.rows = 4 /\ last.cols = 2
    /\ last.n = 255
    /\ GridDistinct(4, 2)
    /\ NumContours(LastGlyph) = 1
    /\ FilledCells(LastGlyph, 4, 2) = GridBox(4, 2)

\* The rectangle sepmap emits for a cell: its corners as it was drawn, and
\* the ranges it spans.
RectOf(list) ==
    [x1 |-> list[1][2], y1 |-> list[1][3], x2 |-> list[3][2], y2 |-> list[3][3]]

Lo(a, b) == IF a < b THEN a ELSE b
Hi(a, b) == IF a < b THEN b ELSE a

\* Two rectangles share a point (they touch or overlap).
Meet(r, s) ==
    /\ Hi(Lo(r.x1, r.x2), Lo(s.x1, s.x2)) <= Lo(Hi(r.x1, r.x2), Hi(s.x1, s.x2))
    /\ Hi(Lo(r.y1, r.y2), Lo(s.y1, s.y2)) <= Lo(Hi(r.y1, r.y2), Hi(s.y1, s.y2))

\* Two rectangles share an area (they overlap).
Overlap(r, s) ==
    /\ Hi(Lo(r.x1, r.x2), Lo(s.x1, s.x2)) < Lo(Hi(r.x1, r.x2), Hi(s.x1, s.x2))
    /\ Hi(Lo(r.y1, r.y2), Lo(s.y1, s.y2)) < Lo(Hi(r.y1, r.y2), Hi(s.y1, s.y2))

\* The cells of the mask in the order of their bits.
MaskSeq(rows, cols, n) ==
    LET Set(i) == (n \div (2 ^ i)) % 2 = 1
        idx == SelectSeq([i \in 1..(rows * cols) |-> i - 1], Set)
    IN  [k \in 1..Len(idx) |-> <<idx[k] % cols, idx[k] \div cols>>]

\* The rectangle of cell c, inset by the four separations.
InsetRect(rows, cols, c) ==
    [x1 |-> round(RAdd(RMul(p.width, Q(c[1], cols)), p.separationLeft)),
     y1 |-> round(RSub(RSub(p.ascent, RMul(p.height, Q(c[2], rows))),
                       p.separationTop)),
     x2 |-> round(RSub(RMul(p.width, Q(c[1] + 1, cols)), p.separationRight)),
     y2 |-> round(RAdd(RSub(p.ascent, RMul(p.height, Q(c[2] + 1, rows))),
                       p.separationBottom))]

SepmapSelection ==
    LET cells == MaskSeq(last.rows, last.cols, last.n)
    IN  /\ Len(last.added) = Len(cells)
        /\ NumContours(LastGlyph) = Len(cells)
        /\ \A i \in 1..Len(cells) :
              /\ Len(last.added[i]) = 5
              /\ RectOf(last.added[i]) = InsetRect(last.rows, last.cols, cells[i])
              /\ PointSet(last.added[i]) =
                    LET r == RectOf(last.added[i])
                    IN  {<<r.x1, r.y1>>, <<r.x2, r.y1>>, <<r.x2, r.y2>>,
                         <<r.x1, r.y2>>}

\* The separations are not negative and the insets of a cell do not cross.
InsetsFit(rows, cols) ==
    /\ RLe(R(0), p.separationLeft) /\ RLe(R(0), p.separationRight)
    /\ RLe(R(0), p.separationTop) /\ RLe(R(0), p.separationBottom)
    /\ RLe(RAdd(p.separationLeft, p.separationRight), RDiv(p.width, R(cols)))
    /\ RLe(RAdd(p.separationTop, p.separationBottom), RDiv(p.height, R(rows)))

\* C8 as stated: sepmap selects the cells of bitmap, emits one inset
\* rectangle per selected cell, and the rectangles of two distinct selected
\* cells never touch or overlap.
C8_AsStated ==
    (Built /\ last.op = "sepmap") =>
        /\ SepmapSelection
        /\ \A i, j \in 1..Len(last.added) :
              i # j => ~Meet(RectOf(last.added[i]), RectOf(last.added[j]))

\* C8, amended: sepmap selects the cells of bitmap and emits one inset
\* rectangle per selected cell; when the separations are not negative and
\* the insets of a cell do not cross, the rectangles of two distinct
\* selected cells never overlap (they may touch along an edge).
C8_SepmapDisjoint ==
    (Built /\ last.op = "sepmap") =>
        /\ SepmapSelection
        /\ InsetsFit(last.rows, last.cols) =>
              \A i, j \in 1..Len(last.added) :
                  i # j => ~Overlap(RectOf(last.added[i]), RectOf(last.added[j]))

\* Positive separations lost to rounding: two rectangles that touch.
C8_Witness ==
    /\ Built /\ last.op = "sepmap" /\ last.rows = 1 /\ last.cols = 2
    /\ last.n = 3
    /\ RLt(R(0), p.separationLeft) /\ RLt(R(0), p.separationRight)
    /\ InsetsFit(1, 2)
    /\ Len(last.added) = 2
    /\ Meet(RectOf(last.added[1]), RectOf(last.added[2]))
    /\ ~Overlap(RectOf(last.added[1]), RectOf(last.added[2]))

\* The names of a sequence of mkglyph calls, each once, in the order of
\* their first call.
RECURSIVE FirstNames(_, _)
FirstNames(cs, seen) ==
    IF cs = <<>> THEN <<>>
    ELSE IF Head(cs)[1] \in seen THEN FirstNames(Tail(cs), seen)
    ELSE <<Head(cs)[1]>> \o FirstNames(Tail(cs), seen \cup {Head(cs)[1]})

IsDecl(l) == l[1] \notin {"m", "l", "SplineSet", "EndSplineSet"}

\* The declarations the mkglyph calls of one name leave on glyph index ci.
RECURSIVE DeclsOf(_, _, _)
DeclsOf(cs, name, ci) ==
    IF cs = <<>> THEN <<>>
    ELSE (IF Head(cs)[1] = name
          THEN << <<"Encoding", Head(cs)[2], Head(cs)[2], ci>>,
                  <<"Width", FormatD(p.width), 0, 0>>,
                  <<"VWidth: 0", 0, 0, 0>>, <<"Flags: HW", 0, 0, 0>>,
                  <<"LayerCount: 2", 0, 0, 0>>, <<"Fore", 0, 0, 0>> >>
          ELSE <<>>) \o DeclsOf(Tail(cs), name, ci)

IsStartChar(l) == l[1] = "StartChar"

\* C9 as stated: every mkglyph call appends a new glyph with that name and
\* codepoint and advance width Metrics.width, so the glyph list is the call
\* sequence and a glyph's encoding index is its call position.
C9_AsStated ==
    Built =>
        /\ Len(chars) = Len(mkcalls)
        /\ \A i \in 1..Len(chars) :
              /\ chars[i].name = mkcalls[i][1]
              /\ chars[i].properties[1]
                    = <<"Encoding", mkcalls[i][2], mkcalls[i][2], i - 1>>
              /\ chars[i].properties[2][1] = "Width"
              /\ R(chars[i].properties[2][2]) = p.width

\* C9, amended: a mkglyph call whose name is new appends a glyph of that
\* name to the font, and a call whose name the font already has returns the
\* glyph of that name; either way the call appends the declarations of its
\* codepoint to the glyph, with the glyph's index as encoding index and the
\* integer part of Metrics.width as advance width.  The glyph list is the
\* distinct names in the order of their first call (not codepoint order),
\* and so is the serialized font.
C9_GlyphList ==
    Built =>
        LET names == FirstNames(mkcalls, {})
        IN  /\ Len(chars) = Len(names)
            /\ \A i \in 1..Len(chars) :
                  /\ chars[i].name = names[i]
                  /\ charindex[names[i]] = i - 1
                  /\ SelectSeq(chars[i].properties, IsDecl)
                        = DeclsOf(mkcalls, names[i], i - 1)
            /\ RLe(R(0), p.width) =>
                  /\ RLe(R(FormatD(p.width)), p.width)
                  /\ RLt(p.width, R(FormatD(p.width) + 1))
            /\ pc = "done" =>
                  LET starts == SelectSeq(out, IsStartChar)
                  IN  /\ Len(starts) = Len(names)
                      /\ \A i \in 1..Len(names) : starts[i][2] = names[i]
                      /\ \E k \in 1..Len(out) :
                            out[k] = <<"BeginChars", encsize, Len(names), 0>>

\* Two glyphs made in an order that is not the order of their codepoints,
\* with an advance width that is not a whole number, and the font written.
C9_Witness ==
    /\ pc = "done"
    /\ mkcalls = << <<"a", 65>>, <<"b", 32>> >>
    /\ Len(chars) = 2
    /\ chars[2].name = "b"
    /\ chars[2].properties[1] = <<"Encoding", 32, 32, 1>>
    /\ p.width = Q(25, 2)
    /\ chars[2].properties[2] = <<"Width", 12, 0, 0>>

\* The name was given to mkglyph exactly once.
MadeOnce(name) ==
    Cardinality({k \in 1..Len(mkcalls) : mkcalls[k][1] = name}) = 1

\* C10: the contours of a glyph are the contours its builder calls produced,
\* in call order; a glyph with contours has exactly one SplineSet ...
\* EndSplineSet section, which holds all of them and comes after the
\* declarations of the glyph (directly after the six declarations of a
\* glyph whose name was made once); a glyph without contours has no section.
C10_OneContourSection ==
    Built =>
        \A g \in 1..Len(chars) :
            LET props == chars[g].properties
                flat == Flatten(Flatten(calls[g]))
            IN  /\ Splines(props) = flat
                /\ IF flat = <<>>
                   THEN /\ CountOf(props, "SplineSet") = 0
                        /\ CountOf(props, "EndSplineSet") = 0
                   ELSE /\ CountOf(props, "SplineSet") = 1
                        /\ CountOf(props, "EndSplineSet") = 1
                        /\ \E a \in 7..Len(props) :
                              /\ \A i \in 1..(a - 1) : IsDecl(props[i])
                              /\ props[a] = SplineSet
                              /\ SubSeq(props, a + 1, a + Len(flat)) = flat
                              /\ props[a + Len(flat) + 1] = EndSplineSet
                        /\ MadeOnce(chars[g].name) =>
                              props = DeclsOf(mkcalls, chars[g].name, g - 1)
                                        \o <<SplineSet>> \o flat
                                        \o <<EndSplineSet>>
                /\ pc = "done" =>
                      \E k \in 1..Len(out) :
                          /\ out[k] = <<"StartChar", chars[g].name, 0, 0>>
                          /\ SubSeq(out, k + 1, k + Len(props)) = props
                          /\ out[k + Len(props) + 1] = Line("EndChar")

\* A glyph built by two builder calls, and the font written.
C10_Witness ==
    /\ pc = "done"
    /\ \E g \in 1..Len(chars) :
          /\ Len(calls[g]) = 2
          /\ MadeOnce(chars[g].name)
          /\ NumContours(Splines(chars[g].properties)) = 3
          /\ CountOf(chars[g].properties, "SplineSet") = 1

\* The block of glyph i of the font starts at line k of the output: an empty
\* line, StartChar with the glyph's name, its properties and EndChar; and the
\* blocks of the glyphs after it follow, up to line n.
RECURSIVE BlocksFrom(_, _, _)
BlocksFrom(i, k, n) ==
    IF i > Len(chars) THEN k = n + 1
    ELSE LET props == chars[i].properties
         IN  /\ k + Len(props) + 2 <= n
             /\ out[k] = Line("")
             /\ out[k + 1] = <<"StartChar", chars[i].name, 0, 0>>
             /\ SubSeq(out, k + 2, k + 1 + Len(props)) = props
             /\ out[k + Len(props) + 2] = Line("EndChar")
             /\ BlocksFrom(i + 1, k + Len(props) + 3, n)

\* The order of the output: version line, header, BeginChars with the
\* number of glyphs, the glyph blocks in insertion order, the footer.
SerializationOrder ==
    LET h == Len(properties)
        n == Len(out)
    IN  /\ n >= h + 4
        /\ out[1] = Line("SplineFontDB: 3.0")
        /\ SubSeq(out, 2, h + 1) = properties
        /\ CountOf(properties, "Ascent") = 1
        /\ CountOf(properties, "Descent") = 1
        /\ out[h + 2] = <<"BeginChars", encsize, Len(chars), 0>>
        /\ BlocksFrom(1, h + 3, n - 2)
        /\ CountOf(out, "StartChar") = Len(chars)
        /\ out[n - 1] = Line("EndChars")
        /\ out[n] = Line("EndSplineFont")

HeaderValue(key) ==
    LET i == CHOOSE j \in 1..Len(out) : out[j][1] = key IN out[i][2]

\* C11 as stated: the output is in serialization order and its Ascent and
\* Descent lines are equal to the Metrics.
C11_AsStated ==
    pc = "done" =>
        /\ SerializationOrder
        /\ R(HeaderValue("Ascent")) = p.ascent
        /\ R(HeaderValue("Descent")) = p.descent

\* C11, amended: the output is, in this order, the version line, the header
\* properties with Ascent and Descent the Metrics truncated to integers, a
\* BeginChars line with the number of glyphs of the font, every glyph once
\* in insertion order as a StartChar ... EndChar block, and the EndChars /
\* EndSplineFont footer.
C11_SerializationOrder ==
    pc = "done" =>
        /\ SerializationOrder
        /\ HeaderValue("Ascent") = FormatD(p.ascent)
        /\ HeaderValue("Descent") = FormatD(p.descent)
        /\ RLe(R(HeaderValue("Descent")), p.descent)
        /\ RLt(p.descent, R(HeaderValue("Descent") + 1))

\* A font of two glyphs written with a descent that is not a whole number.
C11_Witness ==
    /\ pc = "done"
    /\ Len(chars) = 2
    /\ p.descent = Q(5, 2)
    /\ HeaderValue("Descent") = 2
    /\ HeaderValue("Ascent") = 10
    /\ CountOf(out, "StartChar") = 2

PointOf(l) == <<l[2], l[3]>>

\* One move opcode, at the head of the contour, and line opcodes after it.
MoveThenLines(L) ==
    /\ Len(L) >= 2
    /\ L[1][1] = "m"
    /\ \A i \in 2..Len(L) : L[i][1] = "l"

PenContour(P) ==
    /\ Len(P) >= 3
    /\ P[1][1] = "moveTo"
    /\ \A i \in 2..(Len(P) - 1) :
          /\ P[i][1] = "lineTo"
          /\ PointOf(P[i]) # PointOf(P[1])
    /\ P[Len(P)][1] = "closePath"

\* The pen calls of the fontforge variant for the builder call last made.
PenOfLast ==
    IF last.op = "rect"
    THEN penrect(p, last.args[1], last.args[2], last.args[3], last.args[4])
    ELSE penpoly(p, last.args)

C13_NothingPersistedOnFailure ==
    pc = "aborted" => file \in {Absent, Previous}

\* What a builder call hands to appendSplines, from the call alone.
ListsOf(q, call) ==
    CASE call.op = "rect" ->
            rect(q, call.args[1], call.args[2], call.args[3], call.args[4])
      [] call.op = "poly" -> poly(q, call.args)
      [] call.op = "shade" -> shade(q, call.rows, call.cols, call.inverse)
      [] call.op = "ltshade" -> ltshade(q, call.rows, call.cols)
      [] call.op = "dkshade" -> dkshade(q, call.rows, call.cols)
      [] call.op = "bitmap" -> bitmap(q, call.rows, call.cols, call.n)
      [] call.op = "sepmap" -> sepmap(q, call.rows, call.cols, call.n)

\* A second run: the calls of the log made again, in order, on a new Sfd.
RECURSIVE RerunFrom(_, _, _, _)
RerunFrom(l, q, cs, cidx) ==
    IF l = <<>> THEN cs
    ELSE LET c == Head(l)
         IN  IF c.op = "mkglyph"
             THEN LET r == charIndex(cs, cidx, c.args[1])
                  IN  RerunFrom(Tail(l), q,
                                [r.chars EXCEPT ![r.i + 1].properties =
                                    @ \o GlyphDecls(q, c.args[2], r.i)],
                                r.charindex)
             ELSE RerunFrom(Tail(l), q,
                            [cs EXCEPT ![c.g].properties =
                                appendEach(@, ListsOf(q, c))],
                            cidx)

SecondRun ==
    LET q == SLCParameters(kwargs)
    IN  SfdPrint(mkfont(q), EncSize, RerunFrom(log, q, <<>>, <<>>))

CallsOn(g) ==
    LET On(c) == c.op # "mkglyph" /\ c.g = g IN SelectSeq(log, On)

RECURSIVE ContoursOf(_)
ContoursOf(cs) ==
    IF cs = <<>> THEN <<>>
    ELSE Flatten(ListsOf(p, Head(cs))) \o ContoursOf(Tail(cs))

\* The contours of every glyph are those of the calls made on it, however
\* the calls on other glyphs were interleaved with them.
OwnCallsOnly ==
    Built => \A g \in 1..Len(chars) :
                Splines(chars[g].properties) = ContoursOf(CallsOn(g))

\* A builder step on glyph g reads the parameters and glyph g and writes
\* glyph g only: the other glyphs, the glyph order, the name index, the
\* parameters and the header stay as they are.
BuilderStepIsLocal ==
    (Len(log') = Len(log) + 1 /\ log'[Len(log')].op # "mkglyph") =>
        LET c == log'[Len(log')]
        IN  /\ Len(chars') = Len(chars)
            /\ \A h \in 1..Len(chars) :
                  /\ chars'[h].name = chars[h].name
                  /\ h # c.g => chars'[h] = chars[h]
            /\ chars'[c.g].properties
                  = appendEach(chars[c.g].properties, ListsOf(p, c))
            /\ UNCHANGED <<p, properties, encsize, charindex>>

\* The Sfd variant shares no mutable state between glyphs: a builder step
\* writes only its own glyph and reads only that glyph and the
\* parameters, so the contours of a glyph and the glyph order do not depend
\* on how the steps of different glyphs are interleaved.
C15_NoSharedState == []OwnCallsOnly /\ [][BuilderStepIsLocal]_vars

\* Two glyphs, the second built before the first.
C15_Witness ==
    /\ Len(chars) = 2
    /\ Len(log) = 4
    /\ log[3].op # "mkglyph" /\ log[3].g = 2
    /\ log[4].op # "mkglyph" /\ log[4].g = 1
    /\ log[3].op # log[4].op
    /\ Splines(chars[1].properties) = Flatten(ListsOf(p, log[4]))
    /\ Splines(chars[2].properties) = Flatten(ListsOf(p, log[3]))
    /\ Splines(chars[1].properties) # Splines(chars[2].properties)

\* The contours the builder calls on the glyph of cp drew since the glyph
\* was last made.
RECURSIVE OwnContours(_, _)
OwnContours(cp, n) ==
    IF n = 0 THEN <<>>
    ELSE IF log[n].op = "mkglyph"
         THEN IF log[n].args[2] = cp THEN <<>> ELSE OwnContours(cp, n - 1)
         ELSE IF log[n].g = cp THEN OwnContours(cp, n - 1) \o log[n].added
              ELSE OwnContours(cp, n - 1)

\* C15: glyph construction shares no mutable state between glyphs: the
\* glyphs of the font are those mkglyph made, and each one holds the
\* contours of its own builder calls, whatever was built on the others.
C15_AsStated ==
    \A i \in 1..Len(font) :
        /\ Made(font[i].cp)
        /\ font[i].contours = OwnContours(font[i].cp, Len(log))

\* A builder call whose geometry is degenerate: a rectangle without width
\* or height, or a separated mosaic with a selected cell whose insets meet
\* or cross.
Degenerate(c) ==
    \/ /\ c.op = "rect"
       /\ c.args[1] = c.args[3] \/ c.args[2] = c.args[4]
    \/ /\ c.op = "sepmap"
       /\ BitCells(c.rows, c.cols, c.n) # <<>>
       /\ \/ RLe(RDiv(p.width, R(c.cols)),
                 RAdd(p.separationLeft, p.separationRight))
          \/ RLe(RDiv(p.height, R(c.rows)),
                 RAdd(p.separationTop, p.separationBottom))

\* C16: a builder call with degenerate geometry ends the run with a
\* GeometryError and no contour is emitted for its glyph.
C16_AsStated ==
    (Built /\ Degenerate(last)) =>
        /\ pc = "aborted"
        /\ err = "GeometryError"
        /\ Splines(chars[last.g].properties) = <<>>

\* The weight of the last box-drawing call and the design-space image of
\* y = 0.5.
StrokeWeight ==
    IF last.op = "boxdrawlight" THEN p.boxLightWeight ELSE p.boxHeavyWeight

MidY == RSub(p.ascent, RDiv(p.height, R(2)))

RAbs(a) == <<Abs(a[1]), a[2]>>

HorizontalStroke ==
    /\ Built
    /\ last.op \in {"boxdrawlight", "boxdrawheavy"}
    /\ last.args = HorizontalLine

C18_AsStated ==
    (Built /\ last.op = "diagfill") =>
        \A pt \in PointSet(LastGlyph) :
            /\ RLe(R(0), R(pt[1])) /\ RLe(R(pt[1]), p.width)
            /\ RLe(RNeg(p.descent), R(pt[2])) /\ RLe(R(pt[2]), p.ascent)

\* Twice the signed area of a closed contour of four corners.
Area2(pts) ==
    LET e(i) == pts[i][1] * pts[(i % 4) + 1][2] - pts[(i % 4) + 1][1] * pts[i][2]
    IN  e(1) + e(2) + e(3) + e(4)

\* The four corners of a rectangle as rawrect wrote it, and as the pen of
\* the fontforge variant received it.
SfdCorners(L) == [i \in 1..4 |-> <<L[i][2], L[i][3]>>]
PenCorners(ops) == [i \in 1..4 |-> <<ops[i][2], ops[i][3]>>]

Range(f) == {f[i] : i \in DOMAIN f}

\* Same vertex set, same area magnitude.
SameRectangle(a, b) ==
    /\ Range(a) = Range(b)
    /\ Abs(Area2(a)) = Abs(Area2(b))

SwappedPair ==
    /\ Built /\ Len(chars) = 1 /\ Len(calls[1]) = 2
    /\ last.op = "rect"

\* C19: rect(x1,y1,x2,y2) and rect(x2,y2,x1,y1) give, after the mapping to
\* design space and the rounding, the same vertex set and the same area
\* magnitude, in the Sfd lines and in the pen calls; here even the same
\* closed path, entered at the opposite corner.
C19_CornerSwap ==
    SwappedPair =>
        LET a == SfdCorners(calls[1][1][1])
            b == SfdCorners(calls[1][2][1])
            pa == PenCorners(penrect(p, last.args[3], last.args[4],
                                     last.args[1], last.args[2]))
            pb == PenCorners(penrect(p, last.args[1], last.args[2],
                                     last.args[3], last.args[4]))
        IN  /\ Len(calls[1][1]) = 1 /\ Len(calls[1][2]) = 1
            /\ SameRectangle(a, b)
            /\ SameRectangle(pa, pb)
            /\ \A i \in 1..4 : b[i] = a[((i + 1) % 4) + 1]
            /\ \A i \in 1..4 : pb[i] = pa[((i + 1) % 4) + 1]
            /\ a = pa

\* A rectangle with area whose corners round unevenly: rect(1/2, 1/3, 1, 1)
\* on the 5 x 9 em, and its swap.
C19_Witness ==
    /\ SwappedPair
    /\ p.width = R(5)
    /\ last.args = <<R(1), R(1), Q(1, 2), Q(1, 3)>>
    /\ Area2(SfdCorners(calls[1][1][1])) # 0
    /\ calls[1][1] # calls[1][2]

\* The invalid command lines: the bad ones but the empty one, which asks
\* for nothing.
InvalidArgv == BadArgv \ { << >> }

\* C20: an invalid command line produces the usage message and a non-zero
\* exit status, and no font is generated.
C20_AsStated ==
    (argv \in InvalidArgv /\ pc # "main") =>
        /\ pc = "exit"
        /\ usage
        /\ exitcode # <<>> /\ exitcode # <<0>>
        /\ out = <<>> /\ chars = <<>>
        /\ file \in {Absent, Previous}

\* C21: the parser accepts a flag for every override field of SLCParameters,
\* and a flag for the output path.
C21_AsStated ==
    pc = "main" =>
        \A key \in OverrideFields \cup {"file"} :
            \E flag \in Flags, value \in Values : key \in KeysSet(flag, value)

\* The argument list with every shorthand pair in flag position written
\* out: -sv v as -st v -sb v, -sh v as -sr v -sl v, -sp v as
\* -st v -sr v -sb v -sl v.
LongForm(flag) ==
    CASE flag = <<"-", "s", "v">> -> << <<"-", "s", "t">>, <<"-", "s", "b">> >>
      [] flag = <<"-", "s", "h">> -> << <<"-", "s", "r">>, <<"-", "s", "l">> >>
      [] flag = <<"-", "s", "p">> -> << <<"-", "s", "t">>, <<"-", "s", "r">>,
                                        <<"-", "s", "b">>, <<"-", "s", "l">> >>
      [] OTHER -> << flag >>

RECURSIVE WrittenOut(_)
WrittenOut(args) ==
    IF Len(args) < 2 THEN args
    ELSE LET long == LongForm(args[1])
         IN  Flatten([i \in 1..Len(long) |-> <<long[i], args[2]>>])
               \o WrittenOut(SubSeq(args, 3, Len(args)))

Parsed(args) == ParseArgs(args, None, NoKwargs, {}, None)

\* main has called slcgen.
Started == pc = "slcgen" \/ p # None

\* C22: a shorthand separation flag and its written-out form give the same
\* outcome wherever they stand: both command lines are refused, or both are
\* accepted with the same override map (and output path), later flags
\* overriding earlier ones; and this is the map slcgen is entered with.
C22_ShorthandEquivalence ==
    LET a == Parsed(argv)
        b == Parsed(WrittenOut(argv))
    IN  /\ ShowsHelp(a) = ShowsHelp(b)
        /\ ~ShowsHelp(a) => a.kw = b.kw /\ a.keys = b.keys /\ a.path = b.path
        /\ Started => kwargs = b.kw /\ dest = b.path

\* -sp 3 -sv 0: accepted, the later shorthand overriding top and bottom.
C22_Witness ==
    /\ argv = << <<"-", "s", "p">>, <<"3">>, <<"-", "s", "v">>, <<"0">> >>
    /\ WrittenOut(argv) # argv
    /\ Len(WrittenOut(argv)) = 12
    /\ pc = "slcgen"
    /\ kwargs.separationTop = R(0) /\ kwargs.separationBottom = R(0)
    /\ kwargs.separationLeft = R(3) /\ kwargs.separationRight = R(3)

Extended == last.op = "_extendpoints"

LightShadeCells(rows, cols) ==
    { <<x, 2 * y>> : x \in 0..(cols - 1), y \in 0..((rows \div 2) - 1) }
      \cap { c \in GridBox(rows, cols) :
                ((c[1] + (c[2] \div 2)) % 2) = ((rows + cols) % 2) }

\* C24: ltshade(rows, cols) emits one rectangle for each cell (x, 2y) with
\* 0 <= x < cols, 0 <= y < rows div 2 and ((x+y)&1) = ((rows+cols)&1), the
\* rectangle of that cell, and nothing else; the cells filled are exactly
\* these, none of them in an odd-numbered row.
C24_LightShade ==
    (Built /\ last.op = "ltshade") =>
        LET cells == LightShadeCells(last.rows, last.cols)
        IN  /\ Len(last.added) = Cardinality(cells)
            /\ Range(last.added)
                  = { CellRect(p, last.rows, last.cols, c[1], c[2]) : c \in cells }
            /\ LastGlyph = Flatten(last.added)
            /\ \A c \in cells : c[2] % 2 = 0
            /\ GridDistinct(last.rows, last.cols) =>
                  /\ FilledCells(LastGlyph, last.rows, last.cols) = cells
                  /\ \A c \in FilledCells(LastGlyph, last.rows, last.cols) :
                        c[2] % 2 = 0

\* ltshade(4, 4): four cells, in rows 0 and 2; and ltshade(3, 3), where the
\* even row 2 stays empty.
C24_Witness ==
    /\ Built /\ last.op = "ltshade"
    /\ GridDistinct(last.rows, last.cols)
    /\ \/ /\ last.rows = 4 /\ last.cols = 4
          /\ FilledCells(LastGlyph, 4, 4)
                = {<<0, 0>>, <<2, 0>>, <<1, 2>>, <<3, 2>>}
       \/ /\ last.rows = 3 /\ last.cols = 3
          /\ FilledCells(LastGlyph, 3, 3) = {<<0, 0>>, <<2, 0>>}

\* C25: rect(x1,y1,x2,y2) emits exactly one closed contour, whose vertices
\* are the design-space points of (x1,y1), (x2,y1), (x2,y2), (x1,y2), in
\* this order, closed back to (x1,y1): in the lines of the Sfd variant and
\* in the pen calls of the fontforge variant, for every input.
C25_RectContour ==
    (Built /\ last.op = "rect") =>
        LET a == last.args
            v == << tx(p, a[1], a[2]), tx(p, a[3], a[2]),
                    tx(p, a[3], a[4]), tx(p, a[1], a[4]) >>
            L == last.added[1]
            pen == penrect(p, a[1], a[2], a[3], a[4])
        IN  /\ Len(last.added) = 1
            /\ calls[last.g][Len(calls[last.g])] = last.added
            /\ LastGlyph = Flatten(Flatten(calls[last.g]))
            /\ NumContours(L) = 1
            /\ L = << <<"m", v[1][1], v[1][2], 1>>, <<"l", v[2][1], v[2][2], 1>>,
                      <<"l", v[3][1], v[3][2], 1>>, <<"l", v[4][1], v[4][2], 1>>,
                      <<"l", v[1][1], v[1][2], 1>> >>
            /\ pen = << <<"moveTo", v[1][1], v[1][2]>>,
                        <<"lineTo", v[2][1], v[2][2]>>,
                        <<"lineTo", v[3][1], v[3][2]>>,
                        <<"lineTo", v[4][1], v[4][2]>>, <<"closePath", 0, 0>> >>

\* rect(1/3, 1/2, 1, 0) on the 5 x 9 em: from (2, 2) by (5, 2) and (5, 7)
\* to (2, 7) and back.
C25_Witness ==
    /\ Built /\ last.op = "rect"
    /\ p.width = R(5) /\ p.height = R(9)
    /\ last.args = <<Q(1, 3), Q(1, 2), R(1), R(0)>>
    /\ last.added[1] = << <<"m", 2, 2, 1>>, <<"l", 5, 2, 1>>, <<"l", 5, 7, 1>>,
                          <<"l", 2, 7, 1>>, <<"l", 2, 2, 1>> >>

\* The two corners a rect call was given and the two it drew: the first and
\* the third vertex of its contour.
UnitSquare == <<R(0), R(0), R(1), R(1)>>

DrawnCorners ==
    LET L == last.added[1] IN <<L[1][2], L[1][3], L[3][2], L[3][3]>>

IntegerMetrics ==
    /\ p.width[2] = 1 /\ p.ascent[2] = 1 /\ p.descent[2] = 1

\* C26, as stated: for every resolved metrics, rect(0,0,1,1) has its corners
\* exactly at (0, ascent) and (width, -descent).
C26_AsStated ==
    (Built /\ last.op = "rect" /\ last.args = UnitSquare) =>
        /\ DrawnCorners[1] = 0
        /\ R(DrawnCorners[2]) = p.ascent
        /\ R(DrawnCorners[3]) = p.width
        /\ R(DrawnCorners[4]) = RNeg(p.descent)

\* C26: a point (x, y) of the unit square is drawn at (round(width * x),
\* round(ascent - height * y)); the corners (0,0) and (1,1) are drawn at
\* (0, round(ascent)) and (round(width), round(-descent)), which are the
\* corners of the em box when ascent, descent and width are integers.
C26_ToDesign ==
    (Built /\ last.op = "rect") =>
        LET a == last.args IN
        /\ DrawnCorners = tx(p, a[1], a[2]) \o tx(p, a[3], a[4])
        /\ tx(p, a[1], a[2]) = <<round(RMul(p.width, a[1])),
                                 round(RSub(p.ascent, RMul(p.height, a[2])))>>
        /\ a = UnitSquare =>
            /\ DrawnCorners = <<0, round(p.ascent),
                                round(p.width), round(RNeg(p.descent))>>
            /\ IntegerMetrics =>
                /\ R(DrawnCorners[2]) = p.ascent
                /\ R(DrawnCorners[3]) = p.width
                /\ R(DrawnCorners[4]) = RNeg(p.descent)

\* rect(0,0,1,1) with ascent 6, descent 3/2 and width 15/2: drawn from
\* (0, 6) to (8, -2).
C26_Witness ==
    /\ Built /\ last.op = "rect" /\ last.args = UnitSquare
    /\ p.ascent = R(6) /\ p.descent = Q(3, 2) /\ p.width = Q(15, 2)
    /\ DrawnCorners = <<0, 6, 8, -2>>

\* The same call on the default em, whose metrics are integers.
C26_WitnessInteger ==
    /\ Built /\ last.op = "rect" /\ last.args = UnitSquare
    /\ IntegerMetrics
    /\ R(DrawnCorners[3]) = p.width /\ R(DrawnCorners[4]) = RNeg(p.descent)

\* The position in mkcalls of the first call that gave the name.
FirstCall(name) ==
    CHOOSE k \in 1..Len(mkcalls) :
        /\ mkcalls[k][1] = name
        /\ \A j \in 1..(k - 1) : mkcalls[j][1] # name

IsEncoding(l) == l[1] = "Encoding"

RECURSIVE CodepointsOf(_, _)
CodepointsOf(cs, name) ==
    IF cs = <<>> THEN <<>>
    ELSE (IF Head(cs)[1] = name THEN <<Head(cs)[2]>> ELSE <<>>)
             \o CodepointsOf(Tail(cs), name)

\* C27: after any sequence of mkglyph calls, chars holds exactly one SfdChar
\* per distinct name, in the order of the first call of each name;
\* charindex maps every name to the position of its SfdChar; and a call
\* with a known name adds no glyph and gets the existing index: its
\* Encoding line goes to the existing SfdChar and carries that index.
C27_CharIndex ==
    Built =>
        LET called == {mkcalls[k][1] : k \in 1..Len(mkcalls)}
        IN  /\ {chars[i].name : i \in 1..Len(chars)} = called
            /\ Len(chars) = Cardinality(called)
            /\ \A i, j \in 1..Len(chars) :
                  i < j => FirstCall(chars[i].name) < FirstCall(chars[j].name)
            /\ DOMAIN charindex = called
            /\ \A i \in 1..Len(chars) :
                  /\ charindex[chars[i].name] = i - 1
                  /\ LET enc == SelectSeq(chars[i].properties, IsEncoding)
                         cps == CodepointsOf(mkcalls, chars[i].name)
                     IN  /\ Len(enc) = Len(cps)
                         /\ \A k \in 1..Len(enc) :
                               enc[k] = <<"Encoding", cps[k], cps[k], i - 1>>

\* a, b, then b again under another codepoint: two glyphs, and the third
\* call found the second.
C27_Witness ==
    /\ Built
    /\ mkcalls = << <<"a", 65>>, <<"b", 65>>, <<"b", 66>> >>
    /\ Len(chars) = 2
    /\ chars[1].name = "a" /\ chars[2].name = "b"
    /\ charindex["a"] = 0 /\ charindex["b"] = 1
    /\ SelectSeq(chars[2].properties, IsEncoding)
          = << <<"Encoding", 65, 65, 1>>, <<"Encoding", 66, 66, 1>> >>

\* A value the flag accepts: an integer, a number, one of the two line
\* endings, or, for -o, any string.
ValidFor(flag, value) ==
    \/ IntFlagKeys(flag) # {} /\ IsInt(value)
    \/ FloatFlagKeys(flag) # {} /\ IsFloat(value)
    \/ flag = <<"-", "b", "t">> /\ value \in {Truncate, Cute}
    \/ flag = <<"-", "o">>

\* A non-empty sequence of pairs of a known flag and a value valid for it.
ValidPairs(args) ==
    /\ args # <<>>
    /\ Len(args) % 2 = 0
    /\ \A i \in 1..(Len(args) \div 2) : ValidFor(args[2 * i - 1], args[2 * i])

\* C28, as stated: main starts font generation if and only if the argument
\* list is a non-empty sequence of pairs of a known flag and a valid value;
\* for every other argument list it prints the help text, never calls
\* slcgen and never opens the output file.
C28_AsStated ==
    pc # "main" =>
        /\ ValidPairs(argv) <=> Started
        /\ ~ValidPairs(argv) =>
              /\ usage
              /\ ~Started
              /\ file \in {Absent, Previous}

\* The glyph of U+0020 is in the font, without contours and with the advance
\* width of the metrics.
ScratchIsClean(f) ==
    /\ hasChar(f, 32)
    /\ f[slot(f, 32)].contours = <<>>
    /\ f[slot(f, 32)].width = p.width

\* After a box-drawing call the scratch glyph is clean, and the glyph of
\* U+0020 has contours only if a builder other than box drawing put them
\* there.
ScratchAfterBoxDrawing ==
    /\ (log # <<>> /\ log[Len(log)].op = "boxdrawlight") => ScratchIsClean(font)
    /\ (hasChar(font, 32) /\ font[slot(font, 32)].contours # <<>>) =>
          \E i \in 1..Len(log) : log[i].op = "rect" /\ log[i].g = 32

\* A box-drawing step leaves the scratch glyph clean, creates no glyph but
\* the scratch glyph, gives the glyph being built the stroked line, and
\* leaves every other glyph as it was.
BoxDrawingStepFrame ==
    (Len(log') = Len(log) + 1 /\ log'[Len(log')].op = "boxdrawlight") =>
        LET c == log'[Len(log')]
            f == ffboxdrawline(font, p, c.g, c.args, p.boxLightWeight)
        IN  /\ ScratchIsClean(f)
            /\ Len(f) = Len(font) + (IF hasChar(font, 32) THEN 0 ELSE 1)
            /\ Len(font') = Len(f)
            /\ \A i \in 1..Len(font) :
                  /\ f[i].cp = font[i].cp /\ font'[i].cp = font[i].cp
                  /\ font[i].cp \notin {32, c.g} =>
                        f[i] = font[i] /\ font'[i] = font[i]
            /\ c.g # 32 =>
                  font'[slot(font', c.g)].contours
                      = font[slot(font, c.g)].contours \o c.added

\* C29: in the fontforge variant every _boxdrawline call uses the glyph of
\* U+0020 as its scratch buffer and leaves it without contours and with
\* advance width Metrics.width; it changes no glyph other than the scratch
\* glyph and the glyph being built; so after box-drawing calls the space
\* glyph is empty.
C29_ScratchGlyph == []ScratchAfterBoxDrawing /\ [][BoxDrawingStepFrame]_vars

\* A rectangle on U+2502, then a line on U+2500: the call created the glyph
\* of U+0020 and left it clean, and U+2502 holds its rectangle.
C29_Witness ==
    /\ Len(log) = 4
    /\ log[3].op = "rect" /\ log[3].g = 9474
    /\ log[4].op = "boxdrawlight" /\ log[4].g = 9472
    /\ ~Made(32)
    /\ ScratchIsClean(font)
    /\ font[slot(font, 9474)].contours = log[3].added
    /\ font[slot(font, 9472)].contours = log[4].added
    /\ log[4].added # <<>>

\* The cells of the loop of shade for which it calls rect.
Emitted(rows, cols, inverse) ==
    {c \in Range(LoopCells(rows, cols)) : ShadeTest(rows, cols, inverse, c)}

\* The contours of the shade call with the other value of inverse.
OtherShade == Flatten(shade(p, last.rows, last.cols, ~last.inverse))

\* C30: for rows, cols >= 1, shade(rows, cols, false) and
\* shade(rows, cols, true) are complementary: every cell of the grid gets
\* its rectangle from exactly one of the two calls, and is filled by exactly
\* one of the two glyphs.
C30_Complementary ==
    (Built /\ last.op = "shade") =>
        LET r == last.rows
            c == last.cols
            mine == Emitted(r, c, last.inverse)
            others == Emitted(r, c, ~last.inverse)
        IN  /\ last.added = shade(p, r, c, last.inverse)
            /\ LastGlyph = Flatten(last.added)
            /\ Len(last.added) = Cardinality(mine)
            /\ mine \cap others = {}
            /\ mine \cup others = GridBox(r, c)
            /\ NumContours(LastGlyph) + NumContours(OtherShade) = r * c
            /\ GridDistinct(r, c) =>
                  /\ FilledCells(LastGlyph, r, c) \cap FilledCells(OtherShade, r, c)
                        = {}
                  /\ FilledCells(LastGlyph, r, c) \cup FilledCells(OtherShade, r, c)
                        = GridBox(r, c)

\* shade(3, 3, true): four cells, the five others filled by
\* shade(3, 3, false), the corner (0, 0) among them.
C30_Witness ==
    /\ Built /\ last.op = "shade" /\ last.rows = 3 /\ last.cols = 3
    /\ last.inverse
    /\ GridDistinct(3, 3)
    /\ Cardinality(FilledCells(LastGlyph, 3, 3)) = 4
    /\ Cardinality(FilledCells(OtherShade, 3, 3)) = 5
    /\ <<0, 0>> \in FilledCells(OtherShade, 3, 3)
    /\ <<0, 0>> \notin FilledCells(LastGlyph, 3, 3)

====
